---- MODULE Spec2Model ----
(***************************************************************************)
(* Health-check engine of healthchecks-ts/api.                             *)
(*                                                                         *)
(* Part I   the checkers' check(): option resolution, the retry loop of    *)
(*          the HTTP and database checkers, the single evaluation of the   *)
(*          system checker (src/src/checkers/http.ts).                     *)
(* Part II  the orchestrator: registry, timers, result histories,         *)
(*          metrics, executions in flight                                  *)
(*          (src/src/services/health-check-orchestrator.ts).               *)
(* Part III the aggregation of a batch into a summary (executeAllChecks).  *)
(*                                                                         *)
(* Clock readings (timestamp, duration) of a checker result are inputs of  *)
(* the orchestrator part and are left out of the checker part.             *)
(***************************************************************************)
EXTENDS Integers, Sequences, FiniteSets, TLC

VARIABLES
    \* ---- Part I: one call of checker.check(config, options)
    config,       \* the HealthCheckConfig handed to check()
    options,      \* the HealthCheckOptions handed to check() (no field: undefined)
    script,       \* what the environment answers to the successive attempts
    osFailures,   \* how many of the next os.totalmem() calls throw
    pc,           \* "start" | "attempt" | "delay" | "done" | "rejected"
    maxRetries,   \* const maxRetries
    attempt,      \* loop variable attempt
    retryCount,   \* let retryCount
    lastError,    \* let lastError ("" while undefined)
    calls,        \* ghost: invocations of perform*Check so far
    delays,       \* ghost: retry delays slept so far
    driverCalls,  \* ghost: the database driver calls of the attempts so far, in order
    checkResult,  \* the HealthCheckResult check() resolved with
    \* ---- Part II: the orchestrator
    registry,     \* this.registry: id -> config, for the registered ids
    keys,         \* the ids of this.registry in insertion order (the order of Object.values)
    results,      \* this.results: id -> sequence of results
    metrics,      \* this.metrics: id -> HealthCheckMetrics
    intervals,    \* this.intervals: id -> timer handle
    timers,       \* the setInterval timers not cleared; a timer holds the id its callback executes
    inflight,     \* executeCheck calls awaiting checker.check()
    clock,        \* Date.now(), one tick per started execution
    recorded,     \* ghost: id -> results handed to updateMetrics since the metrics were created
    stored,       \* ghost: id -> results handed to storeResult since the history was created
    lastCall,     \* ghost: the operation that ran last and how it ended for its caller
    \* ---- Part III: one executeAllChecks aggregation
    enabledConfigs, \* the configs the batch was started for
    settled,      \* the outcome of Promise.allSettled, one entry per config
    summary,      \* the HealthSummary returned
    \* ---- Part IV: the application around the orchestrator
    response,     \* what the step that ran last answered to a request: [route, id, code]
    events,       \* the events handed to the logger's health methods, oldest first
    startup       \* the position of the initial summary callback of app.listen

checkerVars == <<config, options, script, osFailures, pc, maxRetries, attempt,
                 retryCount, lastError, calls, delays, driverCalls, checkResult>>
orchVars    == <<registry, keys, results, metrics, intervals, timers, inflight,
                 clock, recorded, stored, lastCall>>
aggVars     == <<enabledConfigs, settled, summary>>
appVars     == <<response, events, startup>>
vars        == <<checkerVars, orchVars, aggVars, appVars>>

----------------------------------------------------------------------------
(* Bounds of the model *)

\* retries of a config or of the options range over 0..MaxRetries
MaxRetries == 2

\* executions started in the history scenario
MaxHistoryRuns == 150

\* executions started in the metrics scenario
MaxMetricsRuns == 7

\* configs of one executeAllChecks batch
MaxBatch == 3

\* executions and batches started in the orchestrator and batch scenarios
MaxRuns == 1

\* executions in flight at once in the orchestrator and batch scenarios
MaxInflight == 2

\* executions started, and in flight at once, in the overlap scenario
MaxOverlap == 3

\* executions and batches started in the progress scenario
MaxProgress == 2

----------------------------------------------------------------------------
(* Part I: the checkers *)

\* enum HealthStatus
HEALTHY   == "healthy"
UNHEALTHY == "unhealthy"
DEGRADED  == "degraded"
UNKNOWN   == "unknown"
HealthStatus == {HEALTHY, UNHEALTHY, DEGRADED, UNKNOWN}

\* enum HealthCheckType
HTTP     == "http"
DATABASE == "database"
SYSTEM   == "system"
CUSTOM   == "custom"

\* a record without fields: options not given, a result not yet produced
Empty == [f \in {} |-> 0]

Has(rec, f) == f \in DOMAIN rec

\* const timeout = options?.timeout || config.timeout || 5000
DefaultTimeout == 5000

EffectiveTimeout(opts, cfg) ==
    IF Has(opts, "timeout") /\ opts.timeout # 0 THEN opts.timeout
    ELSE IF cfg.timeout # 0 THEN cfg.timeout
    ELSE DefaultTimeout

\* const maxRetries = options?.retries || config.retries || 0
EffectiveRetries(opts, cfg) ==
    IF Has(opts, "retries") /\ opts.retries # 0 THEN opts.retries
    ELSE IF cfg.retries # 0 THEN cfg.retries
    ELSE 0

\* the thrown values of the model: an Error (axios or not) or a non-Error
\* value; response.status = 0 stands for an error without response
NoResponse == [status |-> 0, statusText |-> ""]

MkError(ax, isErr, code, resp, msg) ==
    [isAxiosError |-> ax, isError |-> isErr, code |-> code,
     response |-> resp, message |-> msg]

NoError == MkError(FALSE, FALSE, "", NoResponse, "")

HttpErrors ==
    { MkError(TRUE, TRUE, "ECONNABORTED", NoResponse, "timeout"),
      MkError(TRUE, TRUE, "", [status |-> 500, statusText |-> "Internal Server Error"],
              "Request failed with status code 500"),
      MkError(FALSE, TRUE, "", NoResponse, "Network Error"),
      MkError(FALSE, FALSE, "", NoResponse, "String error") }

\* `HTTP ${status}: ${statusText}`
HttpStatusLine(resp) ==
    CASE resp.status = 500 /\ resp.statusText = "Internal Server Error"
           -> "HTTP 500: Internal Server Error"
      [] resp.status = 404 /\ resp.statusText = "Not Found"
           -> "HTTP 404: Not Found"
      [] OTHER -> "HTTP error"

\* HttpHealthChecker.extractErrorMessage
HttpExtractErrorMessage(error) ==
    IF error.isAxiosError THEN
        IF error.code = "ECONNABORTED" THEN "Request timeout"
        ELSE IF error.code = "ECONNREFUSED" THEN "Connection refused"
        ELSE IF error.code = "ENOTFOUND" THEN "Host not found"
        ELSE IF error.response.status # 0 /\ error.response.statusText # ""
             THEN HttpStatusLine(error.response)
        ELSE IF error.message # "" THEN error.message
        ELSE "Unknown axios error"
    ELSE IF error.isError THEN error.message
    ELSE "Unknown error occurred"

\* DatabaseHealthChecker.extractErrorMessage
DbExtractErrorMessage(error) ==
    IF error.isError THEN error.message
    ELSE "Unknown database error occurred"

\* the guard of the retry delay: if (attempt < maxRetries) await this.delay(retryDelay)
AttemptsRemain(att, max) == att < max

\* ...(lastError && { error: lastError })
WithError(rec, err) == IF err # "" THEN rec @@ [error |-> err] ELSE rec

\* the result returned after the loop (lines 62-76 and 243-256)
ExhaustedResult(cfg, err, rc) ==
    WithError([id |-> cfg.id, type |-> cfg.type, status |-> UNHEALTHY,
               retryCount |-> rc], err)


\* the loop guard: for (attempt = 0; attempt <= maxRetries; attempt++)
LoopContinuesMutant(att, max) == att < max

LoopContinues(att, max) == att <= max

\* ---- HTTP checker

\* what the endpoint does on one request: axios throws, or a response arrives
\* (validateStatus accepts every status code)
HttpAnswers ==
    { [kind |-> "throw", error |-> e, statusCode |-> 0, bodyMatches |-> FALSE,
       responseTime |-> 0] : e \in HttpErrors }
    \cup
    { [kind |-> "response", error |-> NoError, statusCode |-> 200, bodyMatches |-> TRUE,
       responseTime |-> 100],
      [kind |-> "response", error |-> NoError, statusCode |-> 200, bodyMatches |-> TRUE,
       responseTime |-> 4500],
      [kind |-> "response", error |-> NoError, statusCode |-> 200, bodyMatches |-> FALSE,
       responseTime |-> 100],
      [kind |-> "response", error |-> NoError, statusCode |-> 500, bodyMatches |-> TRUE,
       responseTime |-> 100] }

\* const expectedCodes = config.expectedStatusCodes || [200]
ExpectedCodes(cfg) ==
    IF Has(cfg, "expectedStatusCodes") THEN cfg.expectedStatusCodes ELSE {200}

\* responseTime > timeout * 0.8
ExceedsLatency(responseTime, timeout) == responseTime * 10 > timeout * 8

\* the return for a status code outside the expected set (lines 100-107):
\* a classified response, not an exception
UnexpectedStatusMutant(statusCode) ==
    [threw |-> TRUE,
     error |-> MkError(TRUE, TRUE, "ERR_BAD_RESPONSE", NoResponse, "Request failed"),
     status |-> UNHEALTHY, message |-> <<>>]

UnexpectedStatus(statusCode) ==
    [threw |-> FALSE, error |-> NoError, status |-> UNHEALTHY,
     message |-> <<"Unexpected status code: ", statusCode>>]

\* HttpHealthChecker.performHttpCheck: threw, or the classified response
PerformHttpCheck(cfg, timeout, ans) ==
    IF ans.kind = "throw" THEN
        [threw |-> TRUE, error |-> ans.error, status |-> UNHEALTHY, message |-> <<>>]
    ELSE IF ans.statusCode \notin ExpectedCodes(cfg) THEN
        UnexpectedStatus(ans.statusCode)
    ELSE IF Has(cfg, "expectedBody") /\ ~ans.bodyMatches THEN
        [threw |-> FALSE, error |-> NoError, status |-> UNHEALTHY,
         message |-> <<"Response body does not match expected content">>]
    ELSE
        [threw |-> FALSE, error |-> NoError,
         status |-> IF ExceedsLatency(ans.responseTime, timeout) THEN DEGRADED ELSE HEALTHY,
         message |-> <<"HTTP check successful (", ans.statusCode, ")">>]

\* retryCount of the HTTP checker's successful return: retryCount: attempt
HttpSuccessRetryCountMutant(att, rc) == rc

HttpSuccessRetryCount(att, rc) == att

\* ---- database checker

\* rows are lists of <<column, value>>; JSON.stringify keeps the column order
Row(v) == << <<"test", v>> >>
JsonStringify(row) == row

\* what the database does on one attempt: the connect fails, the query fails,
\* or the query answers a first row after responseTime
DbAnswers ==
    { [kind |-> "connectFail", error |-> MkError(FALSE, TRUE, "", NoResponse, "Connection failed"),
       responseTime |-> 0, row |-> Row(0)],
      [kind |-> "connectFail", error |-> MkError(FALSE, FALSE, "", NoResponse, "Unknown error"),
       responseTime |-> 0, row |-> Row(0)],
      [kind |-> "queryFail", error |-> MkError(FALSE, TRUE, "", NoResponse, "Query failed"),
       responseTime |-> 0, row |-> Row(0)],
      [kind |-> "ok", error |-> NoError, responseTime |-> 100, row |-> Row(1)],
      [kind |-> "ok", error |-> NoError, responseTime |-> 4500, row |-> Row(1)],
      [kind |-> "ok", error |-> NoError, responseTime |-> 100, row |-> Row(2)] }

DatabaseTypes == {"postgresql", "mysql", "mongodb", "redis"}

\* new Error(`Unsupported database type: ${config.databaseType}`)
UnsupportedDatabaseError(dbType) ==
    MkError(FALSE, TRUE, "", NoResponse,
            IF dbType = "oracle" THEN "Unsupported database type: oracle"
            ELSE "Unsupported database type")

LatencyStatus(responseTime, timeout) ==
    IF ExceedsLatency(responseTime, timeout) THEN DEGRADED ELSE HEALTHY

\* checkPostgreSQL: the expected result is compared with the first row
CheckPostgreSQL(cfg, timeout, ans) ==
    IF ans.kind # "ok" THEN
        [threw |-> TRUE, error |-> ans.error, status |-> UNHEALTHY, message |-> <<>>]
    ELSE
        [threw |-> FALSE, error |-> NoError,
         status |-> IF Has(cfg, "expectedResult")
                       /\ JsonStringify(ans.row) # JsonStringify(cfg.expectedResult)
                    THEN UNHEALTHY
                    ELSE LatencyStatus(ans.responseTime, timeout),
         message |-> <<"PostgreSQL connection successful">>]

\* checkMySQL, checkMongoDB, checkRedis: no comparison with expectedResult
CheckOtherDatabase(cfg, timeout, ans, text) ==
    IF ans.kind # "ok" THEN
        [threw |-> TRUE, error |-> ans.error, status |-> UNHEALTHY, message |-> <<>>]
    ELSE
        [threw |-> FALSE, error |-> NoError,
         status |-> LatencyStatus(ans.responseTime, timeout),
         message |-> <<text>>]

\* DatabaseHealthChecker.performDatabaseCheck
PerformDatabaseCheck(cfg, timeout, ans) ==
    CASE cfg.databaseType = "postgresql" -> CheckPostgreSQL(cfg, timeout, ans)
      [] cfg.databaseType = "mysql" ->
            CheckOtherDatabase(cfg, timeout, ans, "MySQL connection successful")
      [] cfg.databaseType = "mongodb" ->
            CheckOtherDatabase(cfg, timeout, ans, "MongoDB connection successful")
      [] cfg.databaseType = "redis" ->
            CheckOtherDatabase(cfg, timeout, ans, "Redis connection successful")
      [] OTHER ->
            [threw |-> TRUE, error |-> UnsupportedDatabaseError(cfg.databaseType),
             status |-> UNHEALTHY, message |-> <<>>]

\* one call of the database driver made by attempt n: ok is FALSE when the
\* call throws or rejects
DriverCall(n, op, ok) == [attempt |-> n, op |-> op, ok |-> ok]

\* the calls of a check* method that constructs its client, connects it,
\* probes the database and closes the client, either after the probe in
\* the try block or in the catch block
ClientCallsMutant(n, create, probe, close, ans) ==
    IF ans.kind = "connectFail"
    THEN << DriverCall(n, create, TRUE), DriverCall(n, "connect", FALSE) >>
    ELSE << DriverCall(n, create, TRUE), DriverCall(n, "connect", TRUE),
            DriverCall(n, probe, ans.kind = "ok"), DriverCall(n, close, TRUE) >>

ClientCalls(n, create, probe, close, ans) ==
    IF ans.kind = "connectFail"
    THEN << DriverCall(n, create, TRUE), DriverCall(n, "connect", FALSE),
            DriverCall(n, close, TRUE) >>
    ELSE << DriverCall(n, create, TRUE), DriverCall(n, "connect", TRUE),
            DriverCall(n, probe, ans.kind = "ok"), DriverCall(n, close, TRUE) >>

\* checkMySQL: mysql.createConnection is awaited before the try block, a
\* rejection leaves the method with no connection made
MySQLCalls(n, ans) ==
    IF ans.kind = "connectFail"
    THEN << DriverCall(n, "createConnection", FALSE) >>
    ELSE << DriverCall(n, "createConnection", TRUE),
            DriverCall(n, "execute", ans.kind = "ok"), DriverCall(n, "end", TRUE) >>

\* the driver calls of performDatabaseCheck, by dialect
DatabaseCalls(cfg, n, ans) ==
    CASE cfg.databaseType = "postgresql" -> ClientCalls(n, "new Client", "query", "end", ans)
      [] cfg.databaseType = "mysql" -> MySQLCalls(n, ans)
      [] cfg.databaseType = "mongodb" -> ClientCalls(n, "new MongoClient", "ping", "close", ans)
      [] cfg.databaseType = "redis" -> ClientCalls(n, "createClient", "ping", "disconnect", ans)
      [] OTHER -> <<>>

\* retryCount of the database checker's successful return: the variable
\* retryCount, which only the catch block assigns
DbSuccessRetryCount(att, rc) == rc


\* ---- system checker

SystemErrors ==
    { MkError(FALSE, TRUE, "", NoResponse, "System call failed"),
      MkError(FALSE, FALSE, "", NoResponse, "String error") }

\* what the operating system reports during one evaluation; the first
\* totalmemFailures calls of os.totalmem() throw osError.  diskUsagePercent
\* is how full the checked path's disk is: checkDiskUsage never asks for it
SystemAnswers ==
    { [memoryUsagePercent |-> m, currentLoad |-> 25, diskUsagePercent |-> u, statOk |-> d,
       osError |-> e, totalmemFailures |-> k] :
        m \in {25, 70, 95}, u \in {40, 95}, d \in BOOLEAN, e \in SystemErrors,
        k \in 0 .. (MaxRetries + 1) }

SystemCheckTypes == {"memory", "disk", "cpu"}

\* if (value > threshold) UNHEALTHY else if (value > threshold * 0.8) DEGRADED
ThresholdStatus(value, threshold) ==
    IF value > threshold THEN UNHEALTHY
    ELSE IF value * 10 > threshold * 8 THEN DEGRADED
    ELSE HEALTHY

\* checkMemoryUsage, checkDiskUsage, checkCpuUsage on a sub-check that does not throw
\* (the disk usage is the constant 0; a failing fs.stat is caught and reported)
PerformSystemCheck(check, env) ==
    CASE check.type = "memory" ->
            [type |-> "memory", value |-> env.memoryUsagePercent, threshold |-> check.threshold,
             status |-> ThresholdStatus(env.memoryUsagePercent, check.threshold)]
      [] check.type = "cpu" ->
            [type |-> "cpu", value |-> env.currentLoad, threshold |-> check.threshold,
             status |-> ThresholdStatus(env.currentLoad, check.threshold)]
      [] OTHER ->
            [type |-> "disk", value |-> 0, threshold |-> check.threshold,
             status |-> IF env.statOk THEN ThresholdStatus(0, check.threshold) ELSE UNHEALTHY]

\* new Error(`Unsupported system check type: ${check.type}`)
UnsupportedSystemCheckError ==
    MkError(FALSE, TRUE, "", NoResponse, "Unsupported system check type")

\* overallStatus of lines 501-508
SystemOverallStatus(checkResults) ==
    LET failedChecks == {i \in DOMAIN checkResults : checkResults[i].status # HEALTHY}
    IN IF failedChecks = {} THEN HEALTHY
       ELSE IF \E i \in failedChecks : checkResults[i].status = UNHEALTHY THEN UNHEALTHY
       ELSE DEGRADED

Min(a, b) == IF a < b THEN a ELSE b

\* SystemHealthChecker.check with the next k calls of os.totalmem() throwing:
\* every memory sub-check calls os.totalmem() once, getSystemInfo() once more
SystemEvaluate(cfg, env, k) ==
    LET checks      == cfg.checks
        memIdx      == {i \in DOMAIN checks : checks[i].type = "memory"}
        failedMem   == {i \in memIdx : Cardinality({j \in memIdx : j <= i}) <= k}
        unsupported == {i \in DOMAIN checks : checks[i].type \notin SystemCheckTypes}
        rejecting   == failedMem \cup unsupported
        first       == CHOOSE i \in rejecting : \A j \in rejecting : i <= j
        afterMap    == k - Cardinality(failedMem)
        \* the try block: Promise.all, then getSystemInfo() for the metadata
        tryThrows   == rejecting # {} \/ afterMap > 0
        tryError    == IF rejecting = {} \/ first \in failedMem THEN env.osError
                       ELSE UnsupportedSystemCheckError
        afterTry    == IF rejecting = {} /\ afterMap > 0 THEN afterMap - 1 ELSE afterMap
        checkResults == [i \in DOMAIN checks |-> PerformSystemCheck(checks[i], env)]
    IN IF ~tryThrows THEN
           [rejected |-> FALSE, left |-> afterTry,
            result |-> [id |-> cfg.id, type |-> cfg.type,
                        status |-> SystemOverallStatus(checkResults),
                        message |-> [i \in DOMAIN checks |-> <<checkResults[i].type, checkResults[i].value>>],
                        metadata |-> [checks |-> checkResults]]]
       ELSE IF afterTry > 0 THEN
           \* the catch block's own getSystemInfo() throws: check() rejects
           [rejected |-> TRUE, left |-> afterTry - 1, result |-> Empty]
       ELSE
           [rejected |-> FALSE, left |-> afterTry,
            result |-> [id |-> cfg.id, type |-> cfg.type, status |-> UNHEALTHY,
                        error |-> IF tryError.isError THEN tryError.message
                                  ELSE "Unknown system check error"]]


\* ---- the inputs of one check() call

Retries == 0 .. MaxRetries

\* options: undefined, or { retries: n }
OptionChoices == {Empty} \cup { [retries |-> n] : n \in Retries }

HttpConfigs ==
    { [id |-> "api", type |-> HTTP, timeout |-> 5000, retries |-> r] : r \in Retries }
    \cup
    { [id |-> "api", type |-> HTTP, timeout |-> 5000, retries |-> r,
       expectedStatusCodes |-> {200}, expectedBody |-> "ok"] : r \in Retries }

DatabaseConfigs ==
    { [id |-> "db", type |-> DATABASE, timeout |-> 5000, retries |-> r,
       databaseType |-> t] : r \in Retries, t \in DatabaseTypes \cup {"oracle"} }
    \cup
    { [id |-> "db", type |-> DATABASE, timeout |-> 5000, retries |-> r,
       databaseType |-> t, expectedResult |-> Row(1)] :
         r \in Retries, t \in {"postgresql", "mysql"} }

SystemCheckLists ==
    { << [type |-> "memory", threshold |-> 80] >>,
      << [type |-> "memory", threshold |-> 80], [type |-> "cpu", threshold |-> 90],
         [type |-> "disk", threshold |-> 85] >>,
      << [type |-> "cpu", threshold |-> 90], [type |-> "gpu", threshold |-> 50] >> }

SystemConfigs ==
    { [id |-> "sys", type |-> SYSTEM, timeout |-> 5000, retries |-> r, checks |-> c] :
        r \in Retries, c \in SystemCheckLists }

Answers(type) ==
    CASE type = HTTP -> HttpAnswers
      [] type = DATABASE -> DbAnswers
      [] OTHER -> SystemAnswers

\* the attempts the environment has to answer: one for the system checker
ScriptLength(opts, cfg) ==
    IF cfg.type = SYSTEM THEN 1 ELSE EffectiveRetries(opts, cfg) + 1

\* ---- the actions of check()

\* attempt++ and the loop test; the return after the loop when it fails
NextIteration(err, rc) ==
    /\ attempt' = attempt + 1
    /\ IF LoopContinues(attempt + 1, maxRetries)
       THEN pc' = "attempt" /\ checkResult' = checkResult
       ELSE pc' = "done" /\ checkResult' = ExhaustedResult(config, err, rc)

\* the catch block of the retry loop
CatchAttempt(message) ==
    /\ retryCount' = attempt
    /\ lastError' = message
    /\ IF AttemptsRemain(attempt, maxRetries)
       THEN pc' = "delay" /\ UNCHANGED <<attempt, checkResult>>
       ELSE NextIteration(message, attempt)

\* check() is entered: the options are resolved and the loop starts
CheckStart ==
    /\ pc = "start"
    /\ IF config.type = SYSTEM
       THEN /\ pc' = "attempt"
            /\ UNCHANGED <<maxRetries, checkResult>>
       ELSE /\ maxRetries' = EffectiveRetries(options, config)
            /\ IF LoopContinues(0, maxRetries')
               THEN pc' = "attempt" /\ checkResult' = checkResult
               ELSE pc' = "done" /\ checkResult' = ExhaustedResult(config, lastError, retryCount)
    /\ UNCHANGED <<config, options, script, osFailures, attempt, retryCount, lastError,
                   calls, delays, driverCalls>>
    /\ UNCHANGED <<orchVars, aggVars>>

\* one iteration of HttpHealthChecker.check
HttpAttempt ==
    /\ pc = "attempt" /\ config.type = HTTP
    /\ LET out == PerformHttpCheck(config, EffectiveTimeout(options, config), script[calls + 1])
       IN IF ~out.threw
          THEN /\ checkResult' = [id |-> config.id, type |-> config.type,
                                  status |-> out.status, message |-> out.message,
                                  retryCount |-> HttpSuccessRetryCount(attempt, retryCount)]
               /\ pc' = "done"
               /\ UNCHANGED <<attempt, retryCount, lastError>>
          ELSE CatchAttempt(HttpExtractErrorMessage(out.error))
    /\ calls' = calls + 1
    /\ UNCHANGED <<config, options, script, osFailures, maxRetries, delays, driverCalls>>
    /\ UNCHANGED <<orchVars, aggVars>>

\* one iteration of DatabaseHealthChecker.check
DatabaseAttempt ==
    /\ pc = "attempt" /\ config.type = DATABASE
    /\ LET out == PerformDatabaseCheck(config, EffectiveTimeout(options, config), script[calls + 1])
       IN IF ~out.threw
          THEN /\ checkResult' = [id |-> config.id, type |-> config.type,
                                  status |-> out.status, message |-> out.message,
                                  retryCount |-> DbSuccessRetryCount(attempt, retryCount)]
               /\ pc' = "done"
               /\ UNCHANGED <<attempt, retryCount, lastError>>
          ELSE CatchAttempt(DbExtractErrorMessage(out.error))
    /\ calls' = calls + 1
    /\ driverCalls' = driverCalls \o DatabaseCalls(config, calls + 1, script[calls + 1])
    /\ UNCHANGED <<config, options, script, osFailures, maxRetries, delays>>
    /\ UNCHANGED <<orchVars, aggVars>>

\* await this.delay(retryDelay), then the next iteration
RetryDelay ==
    /\ pc = "delay"
    /\ delays' = delays + 1
    /\ NextIteration(lastError, retryCount)
    /\ UNCHANGED <<config, options, script, osFailures, maxRetries, retryCount, lastError, calls,
                   driverCalls>>
    /\ UNCHANGED <<orchVars, aggVars>>

\* SystemHealthChecker.check: one evaluation, no loop
SystemCheck ==
    /\ pc = "attempt" /\ config.type = SYSTEM
    /\ LET out == SystemEvaluate(config, script[1], osFailures)
       IN /\ osFailures' = out.left
          /\ checkResult' = out.result
          /\ pc' = IF out.rejected THEN "rejected" ELSE "done"
    /\ calls' = calls + 1
    /\ UNCHANGED <<config, options, script, maxRetries, attempt, retryCount, lastError, delays,
                   driverCalls>>
    /\ UNCHANGED <<orchVars, aggVars>>


----------------------------------------------------------------------------
(* Part II: the orchestrator *)
(* Maps are functions whose domain is the set of keys present.  Numbers    *)
(* with two decimals (averageResponseTime, uptime) are kept in hundredths. *)
(* A synchronous method is one action.  executeCheck is two: up to its     *)
(* await (it may throw there) and after it (checker.check has settled).    *)
(* An execution in flight remembers who awaits it: origin "caller" (a      *)
(* direct executeCheck), "tick" (a timer callback) or "batch" with the     *)
(* index of its task in executeAllChecks.                                  *)

\* if (results.length > 100) results.splice(0, results.length - 100)
HistoryLimit == 100

Remove(map, key) == [k \in DOMAIN map \ {key} |-> map[k]]

Put(map, key, value) == (key :> value) @@ map

\* this.results.get(id) || []
HistoryOf(map, id) == IF id \in DOMAIN map THEN map[id] ELSE <<>>

\* results.splice(0, results.length - 100): drops the oldest entries
TrimMutant(list) == IF Len(list) > HistoryLimit THEN SubSeq(list, 1, HistoryLimit) ELSE list

Trim(list) ==
    IF Len(list) > HistoryLimit
    THEN SubSeq(list, Len(list) - HistoryLimit + 1, Len(list))
    ELSE list

\* storeResult
StoreResultMutant(map, id, result) ==
    IF id \in DOMAIN map THEN Put(map, id, Trim(Append(map[id], result))) ELSE map

\* the result pushed to every history instead of the one of id
StoreResultEverywhereMutant(map, id, result) ==
    [k \in DOMAIN map \cup {id} |-> Trim(Append(HistoryOf(map, k), result))]

StoreResult(map, id, result) == Put(map, id, Trim(Append(HistoryOf(map, id), result)))

\* Math.round(num / den) for num >= 0, den > 0
Round(num, den) == (2 * num + den) \div (2 * den)

\* result.status === HEALTHY || result.status === DEGRADED
IsSuccessMutant(status) == status = HEALTHY

IsSuccess(status) == status = HEALTHY \/ status = DEGRADED

\* the metrics record after lines 225-240, in hundredths where rounded
UpdatedMetrics(m, result) ==
    LET total   == m.totalExecutions + 1
        success == m.successfulExecutions + (IF IsSuccess(result.status) THEN 1 ELSE 0)
        failed  == m.failedExecutions + (IF IsSuccess(result.status) THEN 0 ELSE 1)
    IN [totalExecutions      |-> total,
        successfulExecutions |-> success,
        failedExecutions     |-> failed,
        lastExecutionTime    |-> result.timestamp,
        \* Math.round(((currentAvg * (total - 1)) + duration) / total * 100) / 100
        averageResponseTime  |-> Round(m.averageResponseTime * (total - 1) + 100 * result.duration,
                                       total),
        \* Math.round((success / total) * 100 * 100) / 100
        uptime               |-> Round(success * 100 * 100, total)]

\* the metrics registerCheck creates
InitialMetrics(now) ==
    [totalExecutions |-> 0, successfulExecutions |-> 0, failedExecutions |-> 0,
     averageResponseTime |-> 0, lastExecutionTime |-> now, uptime |-> 100 * 100]

\* updateMetrics: nothing when the id has no metrics
UpdateMetricsMutant(map, id, result) ==
    Put(map, id, UpdatedMetrics(IF id \in DOMAIN map THEN map[id] ELSE InitialMetrics(0), result))

UpdateMetrics(map, id, result) ==
    IF id \notin DOMAIN map THEN map ELSE Put(map, id, UpdatedMetrics(map[id], result))

\* the types initializeCheckers registers a checker for
CheckerTypesMutant == {HTTP, DATABASE, SYSTEM, CUSTOM}

CheckerTypes == {HTTP, DATABASE, SYSTEM}

\* how an operation ended for its caller: "returned" (a synchronous method),
\* "pending" (a promise not settled), "resolved", "rejected", "logged" (a
\* failure caught by the timer callback) or the message of the Error thrown
Call(op, id, outcome) == [op |-> op, id |-> id, outcome |-> outcome]

\* new Error(`Health check with id '${id}' not found`)
NotFoundError == "Health check with id not found"

\* new Error(`No checker available for type '${config.type}'`)
NoCheckerError == "No checker available for type"

\* new Error(`No metrics found for health check '${id}'`)
NoMetricsError == "No metrics found for health check"

\* what a rejected checker.check() rejects with
CheckerRejection == "checker.check rejected"

\* setInterval(async () => { ... this.executeCheck(config.id) ... }, config.interval):
\* a timer distinct from every timer not cleared, whose callback holds config.id
NewTimer(id) ==
    [handle |-> CHOOSE n \in 1 .. Cardinality(timers) + 1 : \A t \in timers : t.handle # n,
     id |-> id]

\* schedulePeriodicCheck: the timers not cleared after scheduling id
ScheduledTimersMutant(id) == timers \cup {NewTimer(id)}

ScheduledTimers(id) ==
    (IF id \in DOMAIN intervals THEN timers \ {intervals[id]} ELSE timers) \cup {NewTimer(id)}

\* schedulePeriodicCheck(config)
SchedulePeriodicCheck(id) ==
    /\ timers' = ScheduledTimers(id)
    /\ intervals' = Put(intervals, id, NewTimer(id))

\* const interval = this.intervals.get(id);
\* if (interval) { clearInterval(interval); this.intervals.delete(id); }
ClearedTimersMutant(id) == timers

ClearedTimers(id) == IF id \in DOMAIN intervals THEN timers \ {intervals[id]} ELSE timers

ClearInterval(id) ==
    /\ timers' = ClearedTimers(id)
    /\ intervals' = Remove(intervals, id)

\* config.enabled && config.interval > 0
SchedulableMutant(enabled, interval) == enabled

Schedulable(enabled, interval) == enabled /\ interval > 0

\* registerCheck(config)
RegisterCheck(cfg) ==
    /\ registry' = Put(registry, cfg.id, cfg)
    /\ keys' = IF cfg.id \in DOMAIN registry THEN keys ELSE Append(keys, cfg.id)
    /\ metrics' = Put(metrics, cfg.id, InitialMetrics(clock))
    /\ recorded' = Put(recorded, cfg.id, <<>>)
    /\ IF Schedulable(cfg.enabled, cfg.interval)
       THEN SchedulePeriodicCheck(cfg.id)
       ELSE UNCHANGED <<timers, intervals>>
    /\ lastCall' = Call("registerCheck", cfg.id, "returned")
    /\ UNCHANGED <<results, stored, inflight, clock>>
    /\ UNCHANGED <<checkerVars, aggVars>>

\* unregisterCheck(id)
UnregisterCheck(id) ==
    /\ registry' = Remove(registry, id)
    /\ keys' = SelectSeq(keys, LAMBDA k : k # id)
    /\ results' = Remove(results, id)
    /\ metrics' = Remove(metrics, id)
    /\ ClearInterval(id)
    /\ recorded' = Remove(recorded, id)
    /\ stored' = Remove(stored, id)
    /\ lastCall' = Call("unregisterCheck", id, "returned")
    /\ UNCHANGED <<inflight, clock>>
    /\ UNCHANGED <<checkerVars, aggVars>>

\* toggleCheck(id, enabled)
ToggleCheck(id, enabled) ==
    IF id \notin DOMAIN registry
    THEN /\ lastCall' = Call("toggleCheck", id, NotFoundError)
         /\ UNCHANGED <<registry, keys, results, metrics, intervals, timers,
                        inflight, clock, recorded, stored>>
         /\ UNCHANGED <<checkerVars, aggVars>>
    ELSE /\ registry' = [registry EXCEPT ![id].enabled = enabled]
         /\ IF Schedulable(enabled, registry[id].interval)
            THEN SchedulePeriodicCheck(id)
            ELSE ClearInterval(id)
         /\ lastCall' = Call("toggleCheck", id, "returned")
         /\ UNCHANGED <<keys, results, metrics, inflight, clock, recorded, stored>>
         /\ UNCHANGED <<checkerVars, aggVars>>

\* dispose()
DisposeMutant ==
    /\ intervals' = Empty
    /\ lastCall' = Call("dispose", "", "returned")
    /\ UNCHANGED <<registry, keys, results, metrics, timers, inflight, clock, recorded,
                   stored>>
    /\ UNCHANGED <<checkerVars, aggVars>>

Dispose ==
    /\ timers' = timers \ {intervals[id] : id \in DOMAIN intervals}
    /\ intervals' = Empty
    /\ lastCall' = Call("dispose", "", "returned")
    /\ UNCHANGED <<registry, keys, results, metrics, inflight, clock, recorded, stored>>
    /\ UNCHANGED <<checkerVars, aggVars>>

\* getMetrics(id) for a non-empty id
GetMetricsMutant(id) ==
    /\ lastCall' = Call("getMetrics", id, "resolved")
    /\ UNCHANGED <<registry, keys, results, metrics, intervals, timers, inflight,
                   clock, recorded, stored>>
    /\ UNCHANGED <<checkerVars, aggVars>>

GetMetrics(id) ==
    /\ lastCall' = Call("getMetrics", id,
                        IF id \in DOMAIN metrics THEN "resolved" ELSE NoMetricsError)
    /\ UNCHANGED <<registry, keys, results, metrics, intervals, timers, inflight,
                   clock, recorded, stored>>
    /\ UNCHANGED <<checkerVars, aggVars>>

\* getCheckStatus(id): the promise's value, Empty for null
CheckStatusMutant(id) ==
    IF id \notin DOMAIN results \/ Len(results[id]) = 0 THEN Empty
    ELSE results[id][1]

CheckStatus(id) ==
    IF id \notin DOMAIN results \/ Len(results[id]) = 0 THEN Empty
    ELSE results[id][Len(results[id])]

\* getCheckStatus(id)
GetCheckStatus(id) ==
    /\ lastCall' = [op |-> "getCheckStatus", id |-> id, outcome |-> "resolved",
                    value |-> CheckStatus(id)]
    /\ UNCHANGED <<registry, keys, results, metrics, intervals, timers, inflight,
                   clock, recorded, stored>>
    /\ UNCHANGED <<checkerVars, aggVars>>

\* executeCheck(id) before its await: the Error it throws, "" when it
\* reaches checker.check(config)
ExecuteCheckError(id) ==
    IF id \notin DOMAIN registry THEN NotFoundError
    ELSE IF registry[id].type \notin CheckerTypes THEN NoCheckerError
    ELSE ""

\* the execution awaiting checker.check(config)
Execution(id, origin, index) ==
    [id |-> id, type |-> registry[id].type, timestamp |-> clock + 1, origin |-> origin,
     index |-> index]

\* executeCheck(id) up to the await: the config and its checker are found
\* and checker.check(config) is called; at most `limit` executions start
\* and at most `parallel` of them are in flight
ExecuteCheckStart(id, origin, limit, parallel) ==
    /\ ExecuteCheckError(id) = ""
    /\ clock < limit
    /\ Cardinality(inflight) < parallel
    /\ clock' = clock + 1
    /\ inflight' = inflight \cup {Execution(id, origin, 0)}
    /\ lastCall' = Call(IF origin = "tick" THEN "tick" ELSE "executeCheck", id, "pending")
    /\ UNCHANGED <<registry, keys, results, metrics, intervals, timers, recorded,
                   stored>>
    /\ UNCHANGED <<checkerVars, aggVars>>

\* executeCheck(id) called directly and throwing before its await
ExecuteCheckThrows(id) ==
    /\ ExecuteCheckError(id) # ""
    /\ lastCall' = Call("executeCheck", id, ExecuteCheckError(id))
    /\ UNCHANGED <<registry, keys, results, metrics, intervals, timers, inflight,
                   clock, recorded, stored>>
    /\ UNCHANGED <<checkerVars, aggVars>>

\* the callback of timer h runs: try { await this.executeCheck(config.id) }
\* catch (error) { console.error(...) }
TickMutant(h, limit, parallel) ==
    /\ h \in timers
    /\ IF ExecuteCheckError(h.id) # ""
       THEN /\ lastCall' = Call("tick", h.id, "logged")
            /\ timers' = timers \ {h}
            /\ UNCHANGED <<registry, keys, results, metrics, intervals, inflight, clock,
                           recorded, stored>>
            /\ UNCHANGED <<checkerVars, aggVars>>
       ELSE ExecuteCheckStart(h.id, "tick", limit, parallel)

Tick(h, limit, parallel) ==
    /\ h \in timers
    /\ IF ExecuteCheckError(h.id) # ""
       THEN /\ lastCall' = Call("tick", h.id, "logged")
            /\ UNCHANGED <<registry, keys, results, metrics, intervals, timers,
                           inflight, clock, recorded, stored>>
            /\ UNCHANGED <<checkerVars, aggVars>>
       ELSE ExecuteCheckStart(h.id, "tick", limit, parallel)

----------------------------------------------------------------------------
(* Part III: the aggregation of executeAllChecks (lines 94-156) *)

\* the synthetic result of a rejected task
FailedResultMutant(cfg, reason) ==
    [id |-> cfg.id, type |-> cfg.type, status |-> UNKNOWN, timestamp |-> 0,
     duration |-> 0, error |-> <<"Failed to execute check: ", reason>>]

FailedResult(cfg, reason) ==
    [id |-> cfg.id, type |-> cfg.type, status |-> UNHEALTHY, timestamp |-> 0,
     duration |-> 0, error |-> <<"Failed to execute check: ", reason>>]

NoCounts ==
    [checks |-> <<>>, healthyCount |-> 0, unhealthyCount |-> 0, degradedCount |-> 0,
     unknownCount |-> 0]

\* results.forEach((result, index) => ...) over the first n entries
RECURSIVE Tally(_, _, _)
Tally(res, cfgs, n) ==
    IF n = 0 THEN NoCounts
    ELSE LET t == Tally(res, cfgs, n - 1)
             r == res[n]
         IN IF r.status = "fulfilled" THEN
                CASE r.value.status = HEALTHY ->
                        [t EXCEPT !.checks = Append(@, r.value), !.healthyCount = @ + 1]
                  [] r.value.status = UNHEALTHY ->
                        [t EXCEPT !.checks = Append(@, r.value), !.unhealthyCount = @ + 1]
                  [] r.value.status = DEGRADED ->
                        [t EXCEPT !.checks = Append(@, r.value), !.degradedCount = @ + 1]
                  [] OTHER ->
                        [t EXCEPT !.checks = Append(@, r.value), !.unknownCount = @ + 1]
            ELSE IF n \in DOMAIN cfgs THEN
                [t EXCEPT !.checks = Append(@, FailedResult(cfgs[n], r.reason)),
                          !.unhealthyCount = @ + 1]
            ELSE t

\* "Determine overall status", lines 137-145
OverallStatusMutant(t) ==
    IF t.unhealthyCount > 0 THEN UNHEALTHY
    ELSE IF t.degradedCount > 0 THEN DEGRADED
    ELSE IF t.unknownCount > 0 THEN UNKNOWN
    ELSE HEALTHY

OverallStatus(t) ==
    IF t.unhealthyCount > 0 THEN UNHEALTHY
    ELSE IF t.degradedCount > 0 THEN DEGRADED
    ELSE IF t.unknownCount > 0 /\ t.healthyCount = 0 THEN UNKNOWN
    ELSE HEALTHY

\* the HealthSummary returned
Summarize(res, cfgs) ==
    LET t == Tally(res, cfgs, Len(res))
    IN [status |-> OverallStatus(t),
        totalChecks |-> Len(t.checks),
        healthyChecks |-> t.healthyCount,
        unhealthyChecks |-> t.unhealthyCount,
        degradedChecks |-> t.degradedCount,
        unknownChecks |-> t.unknownCount,
        checks |-> t.checks]

\* the tasks of a batch have settled: the summary is computed
Aggregate ==
    /\ summary = Empty
    /\ summary' = Summarize(settled, enabledConfigs)
    /\ UNCHANGED <<enabledConfigs, settled>>
    /\ UNCHANGED <<checkerVars, orchVars>>

\* the aggregation is repeated for the same batch (getHealthSummary again)
Reaggregate ==
    /\ summary # Empty
    /\ summary' = Empty
    /\ UNCHANGED <<enabledConfigs, settled>>
    /\ UNCHANGED <<checkerVars, orchVars>>

----------------------------------------------------------------------------
(* Part II, continued: the executions of executeCheck and executeAllChecks *)

\* one task of Promise.allSettled
Fulfilled(result) == [status |-> "fulfilled", value |-> result, reason |-> ""]

Rejected(reason) == [status |-> "rejected", reason |-> reason]

Pending == [status |-> "pending"]

AllSettled(tasks) == \A i \in DOMAIN tasks : tasks[i].status # "pending"

\* (config) => config.enabled
IsEnabledMutant(cfg) == TRUE

IsEnabled(cfg) == cfg.enabled

\* Object.values(this.registry).filter((config) => config.enabled)
EnabledConfigs == SelectSeq([i \in 1 .. Len(keys) |-> registry[keys[i]]], IsEnabled)

\* Promise.all in place of Promise.allSettled: no summary after a rejection
SummaryOfMutant(tasks, cfgs) ==
    IF \A i \in DOMAIN tasks : tasks[i].status = "fulfilled"
    THEN Summarize(tasks, cfgs) ELSE Empty

\* the continuation of executeAllChecks once Promise.allSettled has
\* resolved (lines 94-156); no summary while a task is pending
SummaryOf(tasks, cfgs) == IF AllSettled(tasks) THEN Summarize(tasks, cfgs) ELSE Empty

\* executeAllChecks() up to its await: executeCheck(config.id) is called for
\* every enabled config; one batch at a time
ExecuteAllChecks(limit, parallel) ==
    LET cfgs  == EnabledConfigs
        tasks == [i \in 1 .. Len(cfgs) |->
                    IF ExecuteCheckError(cfgs[i].id) # ""
                    THEN Rejected(ExecuteCheckError(cfgs[i].id))
                    ELSE Pending]
        started == {Execution(cfgs[i].id, "batch", i) :
                      i \in {j \in 1 .. Len(cfgs) : tasks[j] = Pending}}
    IN /\ AllSettled(settled)
       /\ clock < limit
       /\ Cardinality(inflight) + Cardinality(started) <= parallel
       /\ clock' = clock + 1
       /\ enabledConfigs' = [i \in 1 .. Len(cfgs) |-> [id |-> cfgs[i].id, type |-> cfgs[i].type]]
       /\ settled' = tasks
       /\ summary' = SummaryOf(tasks, cfgs)
       /\ inflight' = inflight \cup started
       /\ lastCall' = Call("executeAllChecks", "",
                           IF AllSettled(tasks) THEN "resolved" ELSE "pending")
       /\ UNCHANGED <<registry, keys, results, metrics, intervals, timers,
                      recorded, stored>>
       /\ UNCHANGED checkerVars

\* the promise of execution e settles with `task`: its awaiter goes on
Settle(e, task) ==
    IF e.origin = "batch"
    THEN /\ settled' = [settled EXCEPT ![e.index] = task]
         /\ summary' = SummaryOf(settled', enabledConfigs)
         /\ lastCall' = Call("executeAllChecks", "",
                             IF AllSettled(settled') THEN "resolved" ELSE "pending")
         /\ UNCHANGED enabledConfigs
    ELSE /\ lastCall' = Call(IF e.origin = "tick" THEN "tick" ELSE "executeCheck", e.id,
                             IF task.status = "fulfilled" THEN "resolved"
                             ELSE IF e.origin = "tick" THEN "logged"
                             ELSE "rejected")
         /\ UNCHANGED aggVars

\* executeCheck(id) after the await: checker.check resolved with `status`
\* after `duration` ms; the result is stored and the metrics are updated
ExecuteCheckReturn(e, status, duration) ==
    /\ e \in inflight
    /\ LET result == [id |-> e.id, type |-> e.type, status |-> status,
                      timestamp |-> e.timestamp, duration |-> duration]
       IN /\ results' = StoreResult(results, e.id, result)
          /\ metrics' = UpdateMetrics(metrics, e.id, result)
          /\ stored' = Put(stored, e.id, Append(HistoryOf(stored, e.id), result))
          /\ recorded' = IF e.id \in DOMAIN metrics
                         THEN Put(recorded, e.id, Append(HistoryOf(recorded, e.id), result))
                         ELSE recorded
          /\ Settle(e, Fulfilled(result))
    /\ inflight' = inflight \ {e}
    /\ UNCHANGED <<registry, keys, intervals, timers, clock>>
    /\ UNCHANGED checkerVars

\* executeCheck(id) after the await when checker.check rejected (the system
\* checker can, see SystemCheck): nothing is stored
ExecuteCheckRejectMutant(e) ==
    /\ e \in inflight
    /\ e.type = SYSTEM
    /\ Settle(e, Rejected(CheckerRejection))
    /\ inflight' = inflight \ {e}
    /\ results' = StoreResult(results, e.id, FailedResult(e, CheckerRejection))
    /\ metrics' = UpdateMetrics(metrics, e.id, FailedResult(e, CheckerRejection))
    /\ UNCHANGED <<registry, keys, intervals, timers, clock, recorded, stored>>
    /\ UNCHANGED checkerVars

ExecuteCheckReject(e) ==
    /\ e \in inflight
    /\ e.type = SYSTEM
    /\ Settle(e, Rejected(CheckerRejection))
    /\ inflight' = inflight \ {e}
    /\ UNCHANGED <<registry, keys, results, metrics, intervals, timers, clock,
                   recorded, stored>>
    /\ UNCHANGED checkerVars

----------------------------------------------------------------------------
(* Initial states and specifications *)

CheckerIdle ==
    /\ config = Empty /\ options = Empty /\ script = <<>> /\ osFailures = 0
    /\ pc = "idle" /\ maxRetries = 0 /\ attempt = 0 /\ retryCount = 0
    /\ lastError = "" /\ calls = 0 /\ delays = 0 /\ driverCalls = <<>> /\ checkResult = Empty

\* the orchestrator after its constructor
OrchInit ==
    /\ registry = Empty /\ keys = <<>> /\ results = Empty /\ metrics = Empty /\ intervals = Empty
    /\ timers = {} /\ inflight = {} /\ clock = 0
    /\ recorded = Empty /\ stored = Empty
    /\ lastCall = Call("constructor", "", "returned")

AggIdle == enabledConfigs = <<>> /\ settled = <<>> /\ summary = Empty

\* no request was answered, nothing was logged, the initial summary
\* callback has not run
AppIdle == response = Empty /\ events = <<>> /\ startup = "waiting"

\* ---- the checker scenario: one check() call on any config, options and
\* environment of the bounded sets
CheckerInit ==
    /\ \/ config \in HttpConfigs
       \/ config \in DatabaseConfigs
       \/ config \in SystemConfigs
    /\ options \in OptionChoices
    /\ script \in [1 .. ScriptLength(options, config) -> Answers(config.type)]
    /\ osFailures = (IF config.type = SYSTEM THEN script[1].totalmemFailures ELSE 0)
    /\ pc = "start" /\ maxRetries = 0 /\ attempt = 0 /\ retryCount = 0
    /\ lastError = "" /\ calls = 0 /\ delays = 0 /\ driverCalls = <<>> /\ checkResult = Empty
    /\ OrchInit /\ AggIdle /\ AppIdle

CheckerNext ==
    \/ CheckStart /\ UNCHANGED appVars
    \/ HttpAttempt /\ UNCHANGED appVars
    \/ DatabaseAttempt /\ UNCHANGED appVars
    \/ RetryDelay /\ UNCHANGED appVars
    \/ SystemCheck /\ UNCHANGED appVars

CheckerSpec == CheckerInit /\ [][CheckerNext]_vars

\* ---- the orchestrator scenarios: one id, executed sequentially, never scheduled
ManualConfigs ==
    { [id |-> "api", type |-> HTTP, enabled |-> TRUE, interval |-> 0, timeout |-> 5000,
       retries |-> 2] }

OrchestratorInit == CheckerIdle /\ OrchInit /\ AggIdle /\ AppIdle

\* what checker.check resolves with in the history scenario
HistoryOutcomes == { [status |-> HEALTHY, duration |-> 3] }

\* the ids getCheckStatus is asked for: "ghost" is never registered
StatusIds == {"api", "ghost"}

HistoryNext ==
    \/ \E cfg \in ManualConfigs : RegisterCheck(cfg) /\ UNCHANGED appVars
    \/ \E cfg \in ManualConfigs : ExecuteCheckStart(cfg.id, "caller", MaxHistoryRuns, 1)
          /\ UNCHANGED appVars
    \/ \E e \in inflight, o \in HistoryOutcomes : ExecuteCheckReturn(e, o.status, o.duration)
          /\ UNCHANGED appVars
    \/ \E id \in StatusIds : GetCheckStatus(id) /\ UNCHANGED appVars

HistorySpec == OrchestratorInit /\ [][HistoryNext]_vars

\* what checker.check resolves with in the metrics scenario
MetricsOutcomes ==
    { [status |-> HEALTHY, duration |-> 0], [status |-> DEGRADED, duration |-> 1],
      [status |-> UNHEALTHY, duration |-> 0], [status |-> UNKNOWN, duration |-> 1] }

MetricsNext ==
    \/ \E cfg \in ManualConfigs : RegisterCheck(cfg) /\ UNCHANGED appVars
    \/ \E cfg \in ManualConfigs : ExecuteCheckStart(cfg.id, "caller", MaxMetricsRuns, 1)
          /\ UNCHANGED appVars
    \/ \E e \in inflight, o \in MetricsOutcomes : ExecuteCheckReturn(e, o.status, o.duration)
          /\ UNCHANGED appVars

MetricsSpec == OrchestratorInit /\ [][MetricsNext]_vars

\* ---- the aggregation scenario: any batch of up to MaxBatch settled tasks
SettledOutcomes(i) ==
    { [status |-> "fulfilled", reason |-> "",
       value |-> [id |-> i, type |-> HTTP, status |-> st, timestamp |-> i, duration |-> 0]] :
         st \in HealthStatus }
    \cup
    { [status |-> "rejected", reason |-> "No checker available",
       value |-> [id |-> i, type |-> CUSTOM, status |-> UNKNOWN, timestamp |-> i, duration |-> 0]] }

AggregateInit ==
    /\ \E n \in 0 .. MaxBatch :
          /\ settled \in [1 .. n -> UNION {SettledOutcomes(i) : i \in 1 .. n}]
          /\ \A i \in 1 .. n : settled[i] \in SettledOutcomes(i)
          /\ enabledConfigs = [i \in 1 .. n |-> [id |-> i, type |-> settled[i].value.type]]
    /\ summary = Empty
    /\ CheckerIdle /\ OrchInit /\ AppIdle

AggregateNext ==
    \/ Aggregate /\ UNCHANGED appVars
    \/ Reaggregate /\ UNCHANGED appVars

AggregateSpec == AggregateInit /\ [][AggregateNext]_vars

\* ---- the orchestrator scenario: any calls of the orchestrator's methods
\* on two ids, timer ticks, and checks settling in any order
Ids == {"api", "job"}

Intervals == {0, 1000}

\* "api" is a system check (its checker can resolve or reject), "job" a
\* check of a type without checker
OrchestratorConfigs ==
    [id : {"api"}, type : {SYSTEM}, enabled : BOOLEAN, interval : Intervals]
    \cup [id : {"job"}, type : {CUSTOM}, enabled : BOOLEAN, interval : {1000}]

\* what checker.check resolves with in the orchestrator scenario
OrchestratorOutcomes == { [status |-> HEALTHY, duration |-> 1] }

OrchestratorNext ==
    \/ \E cfg \in OrchestratorConfigs : RegisterCheck(cfg) /\ UNCHANGED appVars
    \/ \E id \in Ids : UnregisterCheck(id) /\ UNCHANGED appVars
    \/ \E id \in Ids, enabled \in BOOLEAN : ToggleCheck(id, enabled) /\ UNCHANGED appVars
    \/ \E id \in Ids : GetMetrics(id) /\ UNCHANGED appVars
    \/ \E id \in Ids : ExecuteCheckStart(id, "caller", MaxRuns, MaxInflight) /\ UNCHANGED appVars
    \/ \E id \in Ids : ExecuteCheckThrows(id) /\ UNCHANGED appVars
    \/ \E h \in timers : Tick(h, MaxRuns, MaxInflight) /\ UNCHANGED appVars
    \/ ExecuteAllChecks(MaxRuns, MaxInflight) /\ UNCHANGED appVars
    \/ \E e \in inflight, o \in OrchestratorOutcomes : ExecuteCheckReturn(e, o.status, o.duration)
          /\ UNCHANGED appVars
    \/ \E e \in inflight : ExecuteCheckReject(e) /\ UNCHANGED appVars
    \/ Dispose /\ UNCHANGED appVars

OrchestratorSpec == OrchestratorInit /\ [][OrchestratorNext]_vars

\* ---- the batch scenario: executeAllChecks over three never scheduled
\* checks, two of them with a checker
BatchConfigs ==
    [id : {"api"}, type : {HTTP}, enabled : BOOLEAN, interval : {0}]
    \cup [id : {"sys"}, type : {SYSTEM}, enabled : BOOLEAN, interval : {0}]
    \cup [id : {"job"}, type : {CUSTOM}, enabled : BOOLEAN, interval : {0}]

\* what checker.check resolves with in the batch scenario
BatchOutcomes ==
    { [status |-> HEALTHY, duration |-> 1], [status |-> DEGRADED, duration |-> 1],
      [status |-> UNHEALTHY, duration |-> 1] }

BatchNext ==
    \/ \E cfg \in BatchConfigs : RegisterCheck(cfg) /\ UNCHANGED appVars
    \/ ExecuteAllChecks(MaxRuns, MaxInflight) /\ UNCHANGED appVars
    \/ \E e \in inflight, o \in BatchOutcomes : ExecuteCheckReturn(e, o.status, o.duration)
          /\ UNCHANGED appVars
    \/ \E e \in inflight : ExecuteCheckReject(e) /\ UNCHANGED appVars

BatchSpec == OrchestratorInit /\ [][BatchNext]_vars


----------------------------------------------------------------------------
(* Properties of the checkers (CheckerSpec) *)

\* the effective retries r of the call
R == EffectiveRetries(options, config)

Timeout == EffectiveTimeout(options, config)

\* attempt i (1-based) of the call fails by throwing
Fails(i) ==
    CASE config.type = HTTP -> script[i].kind = "throw"
      [] config.type = DATABASE ->
            script[i].kind # "ok" \/ config.databaseType \notin DatabaseTypes
      [] OTHER -> FALSE

\* the message the checker captures from the failure of attempt i
CapturedMessage(i) ==
    CASE config.type = HTTP -> HttpExtractErrorMessage(script[i].error)
      [] config.type = DATABASE /\ config.databaseType \notin DatabaseTypes ->
            DbExtractErrorMessage(UnsupportedDatabaseError(config.databaseType))
      [] OTHER -> DbExtractErrorMessage(script[i].error)

Retrying == config.type \in {HTTP, DATABASE}

\* the first attempt (1-based) that does not throw; 0 when every attempt throws
FirstSuccess ==
    IF \A i \in DOMAIN script : Fails(i) THEN 0
    ELSE CHOOSE i \in DOMAIN script : ~Fails(i) /\ \A j \in 1 .. (i - 1) : Fails(j)

\* C1: an HTTP or database check with effective retries r whose every
\* attempt throws makes exactly r+1 attempts and returns status unhealthy,
\* retryCount = r and the error message of the last failed attempt.
C1_AllAttemptsFail ==
    (pc = "done" /\ Retrying /\ FirstSuccess = 0) =>
        /\ calls = R + 1
        /\ delays = R
        /\ checkResult.status = UNHEALTHY
        /\ checkResult.retryCount = R
        /\ Has(checkResult, "error")
        /\ checkResult.error = CapturedMessage(R + 1)

\* a database check that failed three times with differing messages
C1_Witness ==
    /\ pc = "done" /\ config.type = DATABASE /\ FirstSuccess = 0
    /\ R = 2 /\ calls = 3
    /\ config.databaseType = "postgresql"
    /\ CapturedMessage(1) # CapturedMessage(3)
    /\ checkResult.error = CapturedMessage(3)

\* C2: the HTTP checker whose attempts 0..k-1 throw and whose attempt k
\* (k <= r) does not stops after attempt k and returns retryCount = k with
\* the status and message of attempt k only.
C2_HttpSuccessAfterRetries ==
    (pc = "done" /\ config.type = HTTP /\ FirstSuccess > 0) =>
        LET out == PerformHttpCheck(config, Timeout, script[FirstSuccess])
        IN /\ calls = FirstSuccess
           /\ checkResult.retryCount = FirstSuccess - 1
           /\ checkResult.status = out.status
           /\ checkResult.message = out.message
           /\ ~Has(checkResult, "error")

\* two failed requests, then a slow answer: degraded with retryCount 2
C2_Witness ==
    /\ pc = "done" /\ config.type = HTTP /\ FirstSuccess = 3
    /\ checkResult.retryCount = 2 /\ checkResult.status = DEGRADED
    /\ calls = 3

\* C3: the database checker whose first k attempts throw and whose attempt
\* k (k <= r) succeeds returns a healthy or degraded result with
\* retryCount = k (two failed connects, then success: retryCount 2 after
\* 3 connect calls).
C3_DatabaseSuccessAfterRetries ==
    (pc = "done" /\ config.type = DATABASE /\ FirstSuccess > 0
       /\ ~Has(config, "expectedResult")) =>
        /\ calls = FirstSuccess
        /\ checkResult.status \in {HEALTHY, DEGRADED}
        /\ checkResult.retryCount = FirstSuccess - 1

\* the endpoint of the scenario: 500, 500, then 200, against a check
\* with retries 2 that expects 200
Scenario500Then200 ==
    /\ config.type = HTTP /\ R = 2 /\ ExpectedCodes(config) = {200}
    /\ script[1].kind = "response" /\ script[1].statusCode = 500
    /\ script[2].kind = "response" /\ script[2].statusCode = 500
    /\ script[3].kind = "response" /\ script[3].statusCode = 200
    /\ script[3].bodyMatches /\ ~ExceedsLatency(script[3].responseTime, Timeout)

\* C4 as stated: with retries 2 and answers 500, 500, 200 the check ends
\* healthy with retryCount 2, the 500 answers being retried.
C4_UnexpectedStatusRetried ==
    (pc = "done" /\ Scenario500Then200) =>
        /\ checkResult.status = HEALTHY
        /\ checkResult.retryCount = 2

\* C4 amended: a response whose status code is outside the expected set
\* is a completed attempt classified unhealthy and is not retried; in the
\* scenario the check ends unhealthy with retryCount 0 after one request.
C4_UnexpectedStatusNotRetried ==
    (pc = "done" /\ config.type = HTTP /\ FirstSuccess > 0
       /\ script[FirstSuccess].statusCode \notin ExpectedCodes(config)) =>
        /\ calls = FirstSuccess
        /\ checkResult.status = UNHEALTHY
        /\ checkResult.retryCount = FirstSuccess - 1
        /\ ~Has(checkResult, "error")
        /\ Has(checkResult, "message")
        /\ checkResult.message = <<"Unexpected status code: ", script[FirstSuccess].statusCode>>

C4_Witness ==
    /\ pc = "done" /\ Scenario500Then200
    /\ calls = 1 /\ checkResult.status = UNHEALTHY /\ checkResult.retryCount = 0

\* C5: the system checker with retries r, when the OS call fails on the
\* first k attempts (k <= r) and then succeeds, returns the successful
\* status with retryCount = k.
C5_SystemRetries ==
    (pc \in {"done", "rejected"} /\ config.type = SYSTEM
       /\ script[1].totalmemFailures >= 1 /\ script[1].totalmemFailures <= R
       /\ \E i \in DOMAIN config.checks : config.checks[i].type = "memory") =>
        /\ pc = "done"
        /\ checkResult.status = SystemEvaluate(config, script[1], 0).result.status
        /\ Has(checkResult, "retryCount")
        /\ checkResult.retryCount = script[1].totalmemFailures

\* C6: check() of every checker resolves with a result and never rejects.
C6_CheckNeverRejects == pc # "rejected"


----------------------------------------------------------------------------
(* Properties of the orchestrator (HistorySpec, MetricsSpec) *)

\* C7: the history of every id holds at most 100 entries, and after n
\* sequential executions of an id it is the last min(n, 100) results in
\* execution order; after 150 executions results 51..150 remain.
C7_HistoryBounded ==
    \A id \in DOMAIN results :
        LET n == Len(stored[id])
            h == results[id]
        IN /\ Len(h) <= 100
           /\ Len(h) = Min(n, 100)
           /\ \A i \in 1 .. Len(h) : h[i] = stored[id][n - Len(h) + i]
           /\ n = 150 => h[1].timestamp = 51 /\ h[100].timestamp = 150

\* 150 executions have returned and the 50 oldest results are gone
C7_Witness ==
    /\ "api" \in DOMAIN results
    /\ inflight = {}
    /\ Len(stored["api"]) = 150
    /\ Len(results["api"]) = 100
    /\ results["api"][1].timestamp = 51

RECURSIVE SumDurations(_)
SumDurations(list) ==
    IF list = <<>> THEN 0 ELSE list[1].duration + SumDurations(Tail(list))

\* `hundredths` is x rounded to two decimals, for x = num / den (den > 0)
IsRounded(hundredths, num, den) ==
    LET delta == 2 * (100 * num - hundredths * den)
    IN -den <= delta /\ delta < den

\* C8: after N >= 1 recorded executions of a registered id,
\* averageResponseTime is the arithmetic mean of the N recorded durations
\* rounded to 2 decimal places.
C8_AverageIsMean ==
    \A id \in DOMAIN metrics :
        LET N == Len(recorded[id])
        IN N >= 1 => IsRounded(metrics[id].averageResponseTime, SumDurations(recorded[id]), N)

\* the recorded executions of id that count as successes
Successes(id) ==
    Cardinality({i \in DOMAIN recorded[id] : recorded[id][i].status \in {HEALTHY, DEGRADED}})

\* C9: after N >= 1 recorded executions of a registered id of which S were
\* healthy or degraded, uptime = round(S/N*100, 2), successfulExecutions = S
\* and failedExecutions = N - S.
C9_UptimeAndCounters ==
    \A id \in DOMAIN metrics :
        LET N == Len(recorded[id])
            S == Successes(id)
        IN N >= 1 =>
            /\ IsRounded(metrics[id].uptime, 100 * S, N)
            /\ metrics[id].totalExecutions = N
            /\ metrics[id].successfulExecutions = S
            /\ metrics[id].failedExecutions = N - S

\* three recorded executions, one degraded, one unknown: uptime 66.67
C9_Witness ==
    /\ "api" \in DOMAIN metrics
    /\ Len(recorded["api"]) = 3
    /\ Successes("api") = 2
    /\ \E i \in 1 .. 3 : recorded["api"][i].status = DEGRADED
    /\ \E i \in 1 .. 3 : recorded["api"][i].status = UNKNOWN
    /\ metrics["api"].uptime = 6667
    /\ metrics["api"].failedExecutions = 1

----------------------------------------------------------------------------
(* Properties of the aggregation (AggregateSpec) *)

\* some result of the summary has status st
AnyResult(st) == \E i \in DOMAIN summary.checks : summary.checks[i].status = st

\* C10: the overall status of a batch is unhealthy if any result is
\* unhealthy; else degraded if any is degraded; else unknown if some result
\* is unknown and none is healthy; else healthy (also for the empty batch).
C10_OverallStatus ==
    summary # Empty =>
        /\ Len(summary.checks) = Len(settled)
        /\ summary.status =
             IF AnyResult(UNHEALTHY) THEN UNHEALTHY
             ELSE IF AnyResult(DEGRADED) THEN DEGRADED
             ELSE IF AnyResult(UNKNOWN) /\ ~AnyResult(HEALTHY) THEN UNKNOWN
             ELSE HEALTHY

\* a batch of a healthy and an unknown result is healthy
C10_Witness ==
    /\ summary # Empty
    /\ Len(settled) = 2
    /\ AnyResult(HEALTHY) /\ AnyResult(UNKNOWN)
    /\ summary.status = HEALTHY

----------------------------------------------------------------------------
(* Properties of the orchestrator's lifecycle (OrchestratorSpec) *)

\* the timers not cleared whose callback executes id
TimersOf(id) == {t \in timers : t.id = id}

\* the ids of a sequence of configs or results
IdsOf(list) == {list[i].id : i \in DOMAIN list}

\* the executions of id in flight that a timer or a batch started
Automatic(set, id) == {e \in set : e.id = id /\ e.origin \in {"tick", "batch"}}

\* C11: a call of unregisterCheck(id) for an id that is not registered ends
\* with a NotFound error for its caller, never with a silent return.
C11_UnregisterUnknownFails ==
    [][(lastCall'.op = "unregisterCheck" /\ lastCall'.id \notin DOMAIN registry)
          => lastCall'.outcome = NotFoundError]_vars

\* id is not enabled and has no timer
Quiet(id) ==
    /\ TimersOf(id) = {}
    /\ id \in DOMAIN registry => ~registry[id].enabled

\* C12: when toggleCheck(id, false) has returned, id has no timer; and as
\* long as id is not enabled again no timer of id appears, no tick of id
\* starts, and an executeAllChecks called meanwhile neither executes id nor
\* has a result of id in its summary.
C12_DisabledIsOmitted ==
    /\ [](\A id \in Ids :
            /\ (lastCall = Call("toggleCheck", id, "returned") /\ ~registry[id].enabled)
                  => (TimersOf(id) = {} /\ id \notin DOMAIN intervals)
            /\ summary # Empty => IdsOf(summary.checks) \subseteq IdsOf(enabledConfigs))
    /\ [][\A id \in Ids :
            (Quiet(id) /\ (id \in DOMAIN registry' => ~registry'[id].enabled))
               => /\ TimersOf(id)' = {}
                  /\ Automatic(inflight', id) \subseteq Automatic(inflight, id)
                  /\ (lastCall'.op = "executeAllChecks" /\ clock' # clock)
                        => /\ id \notin IdsOf(enabledConfigs')
                           /\ summary' # Empty => id \notin IdsOf(summary'.checks)]_vars

\* toggleCheck("api", false) has returned on a scheduled check one of whose
\* ticks is still executing: no timer of "api" is left
C12_Witness ==
    /\ lastCall = Call("toggleCheck", "api", "returned")
    /\ "api" \in DOMAIN registry
    /\ ~registry["api"].enabled
    /\ registry["api"].interval > 0
    /\ \E e \in inflight : e.id = "api" /\ e.origin = "tick"
    /\ TimersOf("api") = {}

\* C13: when unregisterCheck(id) has returned, id has no config, no result
\* history, no metrics and no timer; and in every state every timer not
\* cleared belongs to a registered id, so that no tick runs for an id
\* absent from the registry.
C13_UnregisterDropsAll ==
    /\ \A id \in Ids :
          lastCall = Call("unregisterCheck", id, "returned")
             => /\ id \notin DOMAIN registry
                /\ id \notin DOMAIN results
                /\ id \notin DOMAIN metrics
                /\ id \notin DOMAIN intervals
                /\ TimersOf(id) = {}
    /\ \A t \in timers : t.id \in DOMAIN registry

\* unregisterCheck("api") has returned while a tick of "api" is still executing
C13_Witness ==
    /\ lastCall = Call("unregisterCheck", "api", "returned")
    /\ \E e \in inflight : e.id = "api" /\ e.origin = "tick"
    /\ "job" \in DOMAIN registry
    /\ TimersOf("job") # {}

\* C14 as stated: in every state a result history or a metrics record
\* exists only for a registered id.
C14_StoresOnlyForRegistered ==
    /\ DOMAIN results \subseteq DOMAIN registry
    /\ DOMAIN metrics \subseteq DOMAIN registry

\* C14, amended: metrics exist exactly for the registered ids, and a result
\* history comes into existence only when an execution of its id completes;
\* the history of an unregistered id is one recreated by an execution that
\* was in flight across the unregisterCheck.
C14_MetricsOnlyForRegistered ==
    /\ [](DOMAIN metrics = DOMAIN registry)
    /\ [][\A id \in DOMAIN results' \ DOMAIN results :
             \E e \in inflight \ inflight' : e.id = id]_vars
    /\ [][\A id \in (DOMAIN results' \ DOMAIN registry') \ DOMAIN results :
             \E e \in inflight \ inflight' : e.id = id /\ id \notin DOMAIN registry]_vars

\* "api" is unregistered and has a result history but no metrics
C14_Witness ==
    /\ "api" \notin DOMAIN registry
    /\ "api" \in DOMAIN results
    /\ Len(results["api"]) = 1
    /\ lastCall = Call("getMetrics", "api", NoMetricsError)

\* the last element of a non-empty sequence
LastOf(list) == list[Len(list)]

\* C15: toggleCheck and unregisterCheck leave the executions in flight
\* alone; an execution leaves the set only by completing, and when its
\* check resolves the result is appended to the history of its id, whether
\* or not the id is still registered or enabled (and is counted in the
\* metrics of the id when the id has metrics).
C15_InflightCompletes ==
    [][/\ lastCall'.op \in {"toggleCheck", "unregisterCheck", "registerCheck", "dispose"}
            => inflight' = inflight
       /\ \A e \in inflight \ inflight' :
            \/ /\ lastCall'.outcome = "resolved" \/ e.origin = "batch"
               /\ e.id \in DOMAIN results'
               /\ LastOf(results'[e.id]).id = e.id
               /\ LastOf(results'[e.id]).timestamp = e.timestamp
               /\ LastOf(stored'[e.id]) = LastOf(results'[e.id])
               /\ Len(stored'[e.id]) = Len(HistoryOf(stored, e.id)) + 1
               /\ e.id \in DOMAIN metrics
                     => metrics'[e.id].totalExecutions = metrics[e.id].totalExecutions + 1
            \/ /\ e.type = SYSTEM
               /\ results' = results /\ metrics' = metrics]_vars

\* an executeCheck("api") that was in flight when "api" was unregistered
\* has resolved and its result is in the history of "api"
C15_Witness ==
    /\ lastCall = Call("executeCheck", "api", "resolved")
    /\ "api" \notin DOMAIN registry
    /\ "api" \in DOMAIN results
    /\ LastOf(results["api"]).timestamp = clock

\* C16: in every state an id has at most one timer not cleared, the one
\* this.intervals holds for it.
C16_OneTimerPerId ==
    \A id \in Ids :
        /\ Cardinality(TimersOf(id)) <= 1
        /\ TimersOf(id) = (IF id \in DOMAIN intervals THEN {intervals[id]} ELSE {})

\* toggleCheck("api", true) has rescheduled "api" while its previous timer
\* was active: only the new timer is left
C16_Witness ==
    /\ lastCall = Call("toggleCheck", "api", "returned")
    /\ "job" \notin DOMAIN registry
    /\ "api" \in DOMAIN intervals
    /\ intervals["api"].handle = 2
    /\ timers = {intervals["api"]}

\* C17: a tick whose executeCheck fails (the id's type has no checker, or
\* the checker rejects) ends in the callback's catch: no timer is cleared,
\* that of the id included, and no registry entry, history or metrics
\* changes; a tick of an id whose type has no checker always ends so.
C17_TickFailureIsCaught ==
    [][lastCall'.op = "tick" =>
         /\ (lastCall'.id \in DOMAIN registry
               /\ registry[lastCall'.id].type \notin CheckerTypes
               /\ inflight \subseteq inflight')
               => (lastCall'.outcome = "logged" /\ inflight' = inflight)
         /\ lastCall'.outcome = "logged"
               => /\ timers' = timers
                  /\ intervals' = intervals
                  /\ registry' = registry
                  /\ results' = results
                  /\ metrics' = metrics]_vars

\* a tick of "job", whose type has no checker, has failed: the timer of
\* "job" and the timer and history of "api" are still there
C17_Witness ==
    /\ lastCall = Call("tick", "job", "logged")
    /\ TimersOf("job") # {}
    /\ TimersOf("api") # {}
    /\ "api" \in DOMAIN results

\* C19: a call of toggleCheck(id, _) or executeCheck(id) on an id that is
\* not registered ends with the 'not found' error, getMetrics(id) with the 'no
\* metrics found' error, and none of them changes the registry, the timers,
\* the histories, the metrics or the executions in flight.
C19_UnknownIdFails ==
    [][(/\ lastCall'.op \in {"toggleCheck", "executeCheck", "getMetrics"}
        /\ lastCall'.id \notin DOMAIN registry
        /\ inflight \subseteq inflight')
          => /\ lastCall'.outcome =
                   (IF lastCall'.op = "getMetrics" THEN NoMetricsError ELSE NotFoundError)
             /\ UNCHANGED <<registry, keys, results, metrics, intervals, timers, inflight>>]_vars

\* toggleCheck("api", _) has failed for the unregistered "api" while "job"
\* is registered and scheduled
C19_Witness ==
    /\ lastCall = Call("toggleCheck", "api", NotFoundError)
    /\ "api" \notin DOMAIN registry
    /\ TimersOf("job") # {}

\* C20: executeCheck(id) on a registered id of type custom, which has no checker, ends
\* with the 'no checker available' error for its caller; it starts no
\* execution and changes no history and no metrics.
C20_NoCheckerFails ==
    [][(/\ lastCall'.op = "executeCheck"
        /\ lastCall'.id \in DOMAIN registry
        /\ registry[lastCall'.id].type = CUSTOM)
          => /\ lastCall'.outcome = NoCheckerError
             /\ UNCHANGED <<registry, keys, results, metrics, intervals, timers, inflight, clock>>]_vars

\* executeCheck("job") has failed for want of a checker; "job" has its
\* initial metrics and "api" a history
C20_Witness ==
    /\ lastCall = Call("executeCheck", "job", NoCheckerError)
    /\ metrics["job"].totalExecutions = 0
    /\ "api" \in DOMAIN results
    /\ "job" \notin DOMAIN results

----------------------------------------------------------------------------
(* Properties of executeAllChecks (BatchSpec) *)

\* the ids of the enabled configs of the registry
EnabledIds == {id \in DOMAIN registry : registry[id].enabled}

\* C18: executeAllChecks starts one task per config enabled at the call,
\* all before any of them settles; a task whose executeCheck fails is
\* rejected and the others go on; a settled task never changes; and the
\* summary has, in the order of the configs, the result of each fulfilled
\* task and a synthetic unhealthy result for each rejected one, with
\* healthy + unhealthy + degraded + unknown = totalChecks = number of results.
C18_BatchSummary ==
    /\ [](summary # Empty =>
            /\ AllSettled(settled)
            /\ Len(summary.checks) = Len(enabledConfigs)
            /\ summary.totalChecks = Len(summary.checks)
            /\ summary.healthyChecks + summary.unhealthyChecks + summary.degradedChecks
                 + summary.unknownChecks = summary.totalChecks
            /\ \A i \in DOMAIN summary.checks :
                  /\ summary.checks[i].id = enabledConfigs[i].id
                  /\ settled[i].status = "fulfilled" => summary.checks[i] = settled[i].value
                  /\ settled[i].status = "rejected"
                        => /\ summary.checks[i].status = UNHEALTHY
                           /\ summary.checks[i].error
                                = <<"Failed to execute check: ", settled[i].reason>>)
    /\ [][(lastCall'.op = "executeAllChecks" /\ clock' # clock)
            => /\ IdsOf(enabledConfigs') = EnabledIds
               /\ Len(enabledConfigs') = Cardinality(EnabledIds)
               /\ Len(settled') = Len(enabledConfigs')
               /\ \A i \in DOMAIN enabledConfigs' :
                     IF enabledConfigs'[i].type \in CheckerTypes
                     THEN /\ settled'[i].status = "pending"
                          /\ \E e \in inflight' \ inflight :
                                e.id = enabledConfigs'[i].id /\ e.index = i
                     ELSE settled'[i].status = "rejected"]_vars
    /\ [][clock' = clock
            => /\ enabledConfigs' = enabledConfigs
               /\ \A i \in DOMAIN settled :
                     settled[i].status # "pending" => settled'[i] = settled[i]]_vars

\* a batch of three: "api" and "sys" ran concurrently and resolved with
\* different statuses, "job" was rejected
C18_Witness ==
    /\ summary # Empty
    /\ summary.totalChecks = 3
    /\ summary.healthyChecks = 1
    /\ summary.degradedChecks = 1
    /\ summary.unhealthyChecks = 1
    /\ \E i \in DOMAIN settled : settled[i].status = "rejected"

----------------------------------------------------------------------------
(* Properties of the option resolution (CheckerSpec) *)

\* C24: the effective number of retries of a check() call is the per-call
\* option whenever the caller gave one, retries = 0 included, and the
\* config's value otherwise.
C24_ExplicitOptionWins ==
    (pc # "start" /\ config.type \in {HTTP, DATABASE}) =>
        maxRetries = IF Has(options, "retries") THEN options.retries ELSE config.retries

----------------------------------------------------------------------------
(* The lifecycle scenario and its properties (LifecycleSpec) *)

\* ---- the lifecycle scenario: registrations, re-registrations, toggles,
\* unregistrations and dispose() on two http checks, with the timers
\* ticking and the checks they start resolving
LifecycleConfigs == [id : Ids, type : {HTTP}, enabled : BOOLEAN, interval : Intervals]

\* what checker.check resolves with in the lifecycle scenario
LifecycleOutcomes == { [status |-> UNHEALTHY, duration |-> 1] }

LifecycleNext ==
    \/ \E cfg \in LifecycleConfigs : RegisterCheck(cfg) /\ UNCHANGED appVars
    \/ \E id \in Ids : UnregisterCheck(id) /\ UNCHANGED appVars
    \/ \E id \in Ids, enabled \in BOOLEAN : ToggleCheck(id, enabled) /\ UNCHANGED appVars
    \/ \E h \in timers : Tick(h, MaxRuns, MaxInflight) /\ UNCHANGED appVars
    \/ \E e \in inflight, o \in LifecycleOutcomes : ExecuteCheckReturn(e, o.status, o.duration)
          /\ UNCHANGED appVars
    \/ Dispose /\ UNCHANGED appVars

LifecycleSpec == OrchestratorInit /\ [][LifecycleNext]_vars

\* C21: registerCheck(config) for an id that is not registered inserts the
\* config (and touches no other config), creates metrics with
\* totalExecutions = 0, successfulExecutions = 0, failedExecutions = 0 and
\* uptime = 100, and starts a timer for the id if and only if
\* config.enabled is true and config.interval > 0.
C21_RegisterNewCheck ==
    [][(lastCall'.op = "registerCheck" /\ lastCall'.id \notin DOMAIN registry)
         => LET id == lastCall'.id
                scheduled == \E t \in timers' : t.id = id
            IN /\ DOMAIN registry' = DOMAIN registry \cup {id}
               /\ registry'[id] \in LifecycleConfigs
               /\ registry'[id].id = id
               /\ \A other \in DOMAIN registry : registry'[other] = registry[other]
               /\ keys' = Append(keys, id)
               /\ id \in DOMAIN metrics'
               /\ metrics'[id].totalExecutions = 0
               /\ metrics'[id].successfulExecutions = 0
               /\ metrics'[id].failedExecutions = 0
               /\ metrics'[id].uptime = 100 * 100
               /\ scheduled <=> (registry'[id].enabled /\ registry'[id].interval > 0)
               /\ (id \in DOMAIN intervals') <=> scheduled]_vars

\* "job" was registered enabled with interval 0 after "api", which has a
\* timer: "job" has fresh metrics and no timer
C21_Witness ==
    /\ lastCall = Call("registerCheck", "job", "returned")
    /\ keys = <<"api", "job">>
    /\ registry["job"].enabled
    /\ registry["job"].interval = 0
    /\ metrics["job"].totalExecutions = 0
    /\ metrics["job"].uptime = 100 * 100
    /\ TimersOf("job") = {}
    /\ TimersOf("api") # {}
    /\ "job" \notin DOMAIN results

\* the executions in flight that a timer started
Ticking(set) == {e \in set : e.origin = "tick"}

\* C22: when dispose() has returned no timer is left, and while none is
\* scheduled again no tick starts an execution; dispose() leaves the
\* registry, the result histories, the metrics and the executions in
\* flight as they are; and a second dispose() right after the first changes
\* nothing at all.
C22_DisposeCancelsAll ==
    /\ [](lastCall.op = "dispose" => (timers = {} /\ intervals = Empty))
    /\ [][timers = {} => Ticking(inflight') \subseteq Ticking(inflight)]_vars
    /\ [][lastCall'.op = "dispose"
            => /\ registry' = registry /\ keys' = keys
               /\ results' = results /\ metrics' = metrics
               /\ inflight' = inflight]_vars
    /\ [][(lastCall.op = "dispose" /\ lastCall'.op = "dispose") => FALSE]_vars

\* dispose() has returned with both checks registered as scheduled, one of
\* them with a recorded result: the configs, the history and the metrics
\* are still there, the timers are not
C22_Witness ==
    /\ lastCall.op = "dispose"
    /\ \A id \in Ids : id \in DOMAIN registry /\ registry[id].enabled /\ registry[id].interval > 0
    /\ Len(HistoryOf(results, "api")) = 1
    /\ metrics["api"].totalExecutions = 1
    /\ timers = {}

\* C30: whatever registerCheck (re-registrations included), unregisterCheck,
\* toggleCheck and dispose calls were made, every timer not cleared is of
\* an id registered with enabled = true and interval > 0.
C30_TimerOnlyIfSchedulable ==
    \A t \in timers :
        /\ t.id \in DOMAIN registry
        /\ registry[t.id].enabled
        /\ registry[t.id].interval > 0

----------------------------------------------------------------------------
(* Properties of the system checker's sub-checks (CheckerSpec) *)

\* the value the result's metadata reports for the sub-check of a type
ReportedValues(result, type) ==
    {result.metadata.checks[i].value :
        i \in {j \in DOMAIN result.metadata.checks : result.metadata.checks[j].type = type}}

\* C25: a system check of memory, cpu and disk against the thresholds
\* 80/90/85, on a machine with 25% memory used, 25% cpu load and a disk
\* 95% full, returns unhealthy, and its metadata holds the three values.
C25_WorstStatusWins ==
    (/\ pc = "done" /\ config.type = SYSTEM /\ Len(config.checks) = 3
     /\ script[1].totalmemFailures = 0 /\ script[1].statOk
     /\ script[1].memoryUsagePercent = 25 /\ script[1].currentLoad = 25
     /\ script[1].diskUsagePercent = 95) =>
        /\ checkResult.status = UNHEALTHY
        /\ ReportedValues(checkResult, "memory") = {25}
        /\ ReportedValues(checkResult, "cpu") = {25}
        /\ ReportedValues(checkResult, "disk") = {95}

----------------------------------------------------------------------------
(* Properties of getCheckStatus (HistorySpec) *)

\* C23: getCheckStatus(id) resolves with the last element of the history
\* of id, with null when id has no history or an empty one, and it changes
\* nothing: no execution starts, and the registry, the timers, the
\* histories and the metrics stay as they are.
C23_StatusIsLastResult ==
    [][lastCall'.op = "getCheckStatus"
         => /\ lastCall'.outcome = "resolved"
            /\ lastCall'.value = IF HistoryOf(results, lastCall'.id) = <<>> THEN Empty
                                 ELSE LastOf(HistoryOf(results, lastCall'.id))
            /\ UNCHANGED <<registry, keys, results, metrics, intervals, timers,
                           inflight, clock>>]_vars

\* getCheckStatus("api") after more than 100 executions: the history was
\* trimmed and the answer is the result of the latest execution
C23_Witness ==
    /\ lastCall.op = "getCheckStatus"
    /\ lastCall.id = "api"
    /\ clock > HistoryLimit
    /\ inflight = {}
    /\ Len(results["api"]) = HistoryLimit
    /\ lastCall.value.timestamp = clock
    /\ lastCall.value # results["api"][1]

----------------------------------------------------------------------------
(* Part IV: the application: the routes of routes/health.ts in front of    *)
(* the orchestrator, the logger's health methods and the start of the      *)
(* server.  A handler that awaits an execution is two actions: up to the   *)
(* await, and the continuation in the step where the awaited promise       *)
(* settles.  `response` is what the step that ran last sent, Empty when it *)
(* sent nothing.                                                           *)

\* let httpStatus = 200; if UNHEALTHY 503; else if DEGRADED 206
StatusCodeOfMutant(status) ==
    IF status = UNHEALTHY THEN 503 ELSE IF status = DEGRADED THEN 206
    ELSE IF status = UNKNOWN THEN 503 ELSE 200

StatusCodeOf(status) ==
    IF status = UNHEALTHY THEN 503 ELSE IF status = DEGRADED THEN 206 ELSE 200

\* res.status(code).json(...) of the handler of `route`
Answer(route, id, code) == [route |-> route, id |-> id, code |-> code]

\* const logLevel = status === 'unhealthy' || status === 'unknown' ? 'warn' : 'info'
LogLevelOf(status) == IF status \in {UNHEALTHY, UNKNOWN} THEN "warn" ELSE "info"

\* logger.logHealthSummary(summary)
HealthSummaryEvent(s) ==
    [level |-> LogLevelOf(s.status), message |-> "Health summary", status |-> s.status]

\* logger.logHealthCheckResult(result)
HealthCheckEvent(result) ==
    [level |-> LogLevelOf(result.status), message |-> "Health check executed",
     checkId |-> result.id, status |-> result.status]

\* the checks setupSampleHealthChecks() registers
GoogleHttp ==
    [id |-> "google-http", name |-> "Google HTTP Check", type |-> HTTP, enabled |-> TRUE,
     interval |-> 30000, timeout |-> 5000, retries |-> 2]

SystemResources ==
    [id |-> "system-resources", name |-> "System Resources Check", type |-> SYSTEM,
     enabled |-> TRUE, interval |-> 60000, timeout |-> 10000, retries |-> 1]

\* getRegisteredChecks()
RegisteredChecks == {registry[id] : id \in DOMAIN registry}

\* POST /health/checks
PostChecksMutant(body) ==
    /\ IF ~(Has(body, "id") /\ Has(body, "name") /\ Has(body, "type"))
       THEN /\ response' = Answer("POST /health/checks", "", 400)
            /\ UNCHANGED orchVars
            /\ UNCHANGED <<checkerVars, aggVars>>
       ELSE /\ RegisterCheck(body)
            /\ response' = Answer("POST /health/checks", body.id, 201)
    /\ UNCHANGED <<events, startup>>

PostChecks(body) ==
    /\ IF ~(Has(body, "id") /\ Has(body, "name") /\ Has(body, "type"))
       THEN /\ response' = Answer("POST /health/checks", "", 400)
            /\ UNCHANGED orchVars
            /\ UNCHANGED <<checkerVars, aggVars>>
       ELSE IF \E check \in RegisteredChecks : check.id = body.id
       THEN /\ response' = Answer("POST /health/checks", body.id, 409)
            /\ UNCHANGED orchVars
            /\ UNCHANGED <<checkerVars, aggVars>>
       ELSE /\ RegisterCheck(body)
            /\ response' = Answer("POST /health/checks", body.id, 201)
    /\ UNCHANGED <<events, startup>>

\* DELETE /health/checks/:id
DeleteCheck(id) ==
    /\ UnregisterCheck(id)
    /\ response' = Answer("DELETE /health/checks/:id", id, 200)
    /\ UNCHANGED <<events, startup>>

\* PUT /health/checks/:id/toggle
PutToggle(id, body) ==
    /\ IF ~Has(body, "enabled")
       THEN /\ response' = Answer("PUT /health/checks/:id/toggle", id, 400)
            /\ UNCHANGED orchVars
            /\ UNCHANGED <<checkerVars, aggVars>>
       ELSE /\ ToggleCheck(id, body.enabled)
            /\ response' = Answer("PUT /health/checks/:id/toggle", id,
                                  IF lastCall'.outcome = "returned" THEN 200 ELSE 500)
    /\ UNCHANGED <<events, startup>>

\* GET /health/metrics/:id
GetMetricsById(id) ==
    /\ GetMetrics(id)
    /\ response' = Answer("GET /health/metrics/:id", id,
                          IF lastCall'.outcome = "resolved" THEN 200 ELSE 500)
    /\ UNCHANGED <<events, startup>>

\* GET /health/checks/:id
GetCheckById(id) ==
    /\ GetCheckStatus(id)
    /\ response' = Answer("GET /health/checks/:id", id,
                          IF lastCall'.value = Empty THEN 404
                          ELSE StatusCodeOf(lastCall'.value.status))
    /\ UNCHANGED <<events, startup>>

\* POST /health/checks/:id/execute up to its await: executeCheck(id) throws
\* (the catch block answers) or is awaited
PostExecute(id, limit, parallel) ==
    /\ \/ /\ ExecuteCheckThrows(id)
          /\ response' = Answer("POST /health/checks/:id/execute", id, 500)
       \/ /\ ExecuteCheckStart(id, "caller", limit, parallel)
          /\ response' = Empty
    /\ UNCHANGED <<events, startup>>

\* what the awaiter of executeAllChecks() does once the summary is there:
\* the initial summary callback logs it, GET /health answers
SummaryHandled ==
    IF ~AllSettled(settled') THEN response' = Empty /\ UNCHANGED events
    ELSE IF startup = "awaiting"
    THEN /\ events' = Append(events, HealthSummaryEvent(summary'))
         /\ response' = Empty
    ELSE /\ response' = Answer("GET /health", "", StatusCodeOf(summary'.status))
         /\ UNCHANGED events

\* the awaiter of the promise of execution e goes on: the execute route
\* answers with `code` (origin "caller"), executeAllChecks goes on with its
\* own awaiter, the timer callback does nothing more
Awaiter(e, code) ==
    /\ IF e.origin = "caller"
       THEN /\ response' = Answer("POST /health/checks/:id/execute", e.id, code)
            /\ UNCHANGED events
       ELSE IF e.origin = "batch" THEN SummaryHandled
       ELSE response' = Empty /\ UNCHANGED events
    /\ startup' = IF e.origin = "batch" /\ startup = "awaiting" /\ AllSettled(settled')
                  THEN "logged" ELSE startup

\* checker.check of execution e resolves: executeCheck goes on, then its awaiter
CheckResolves(e, status, duration) ==
    /\ ExecuteCheckReturn(e, status, duration)
    /\ Awaiter(e, StatusCodeOf(status))

\* checker.check of execution e rejects: executeCheck rejects, its awaiter catches
CheckRejects(e) ==
    /\ ExecuteCheckReject(e)
    /\ Awaiter(e, 500)

\* GET /health up to its await of getHealthSummary()
GetHealth(limit, parallel) ==
    /\ startup # "awaiting"
    /\ ExecuteAllChecks(limit, parallel)
    /\ UNCHANGED startup
    /\ SummaryHandled

\* the callback of setTimeout(..., 2000) in app.listen, up to its await
InitialSummary(limit, parallel) ==
    /\ startup = "waiting"
    /\ ExecuteAllChecks(limit, parallel)
    /\ startup' = IF AllSettled(settled') THEN "logged" ELSE "awaiting"
    /\ IF AllSettled(settled')
       THEN events' = Append(events, HealthSummaryEvent(summary'))
       ELSE UNCHANGED events
    /\ response' = Empty

\* the callback of timer h runs: no handler of a request is involved
TimerFires(h, limit, parallel) ==
    /\ Tick(h, limit, parallel)
    /\ response' = Empty
    /\ UNCHANGED <<events, startup>>

\* ---- the application scenario: requests to the routes on the server
\* started by app.listen, its timers ticking and its checks settling
AppIds == {"system-resources", "ghost"}

\* the request bodies of POST /health/checks: none, one without name, the
\* sample system check
AppBodies ==
    {Empty, [id |-> "system-resources", type |-> SYSTEM],
     SystemResources, [SystemResources EXCEPT !.enabled = FALSE]}

\* the request bodies of PUT /health/checks/:id/toggle
ToggleBodies == {Empty, [enabled |-> TRUE], [enabled |-> FALSE]}

\* what checker.check resolves with in the application scenario
AppOutcomes == [status : HealthStatus, duration : {1}]

\* the server after the callback of app.listen has run setupSampleHealthChecks()
SampleChecksRegistered ==
    /\ registry = Put(Put(Empty, GoogleHttp.id, GoogleHttp), SystemResources.id, SystemResources)
    /\ keys = <<GoogleHttp.id, SystemResources.id>>
    /\ results = Empty
    /\ metrics = Put(Put(Empty, GoogleHttp.id, InitialMetrics(0)),
                     SystemResources.id, InitialMetrics(0))
    /\ timers = {[handle |-> 1, id |-> GoogleHttp.id], [handle |-> 2, id |-> SystemResources.id]}
    /\ intervals = Put(Put(Empty, GoogleHttp.id, [handle |-> 1, id |-> GoogleHttp.id]),
                       SystemResources.id, [handle |-> 2, id |-> SystemResources.id])
    /\ inflight = {} /\ clock = 0
    /\ recorded = Put(Put(Empty, GoogleHttp.id, <<>>), SystemResources.id, <<>>)
    /\ stored = Empty
    /\ lastCall = Call("registerCheck", SystemResources.id, "returned")

AppInit == CheckerIdle /\ AggIdle /\ AppIdle /\ SampleChecksRegistered

AppNext ==
    \/ \E body \in AppBodies : PostChecks(body)
    \/ \E id \in AppIds : DeleteCheck(id)
    \/ \E id \in AppIds, body \in ToggleBodies : PutToggle(id, body)
    \/ \E id \in AppIds : GetMetricsById(id)
    \/ \E id \in AppIds : GetCheckById(id)
    \/ \E id \in AppIds : PostExecute(id, MaxRuns, MaxInflight)
    \/ GetHealth(MaxRuns, MaxInflight)
    \/ InitialSummary(MaxRuns, MaxInflight)
    \/ \E h \in timers : TimerFires(h, MaxRuns, MaxInflight)
    \/ \E e \in inflight, o \in AppOutcomes : CheckResolves(e, o.status, o.duration)
    \/ \E e \in inflight : CheckRejects(e)

AppSpec == AppInit /\ [][AppNext]_vars

\* ---- the status scenario: the requests that report a status (GET /health,
\* GET /health/checks/:id, POST /health/checks/:id/execute) and those that
\* register and unregister, on the same server
StatusNext ==
    \/ \E body \in AppBodies : PostChecks(body)
    \/ \E id \in AppIds : DeleteCheck(id)
    \/ \E id \in AppIds : GetCheckById(id)
    \/ \E id \in AppIds : PostExecute(id, MaxRuns, MaxInflight)
    \/ GetHealth(MaxRuns, MaxInflight)
    \/ InitialSummary(MaxRuns, MaxInflight)
    \/ \E h \in timers : TimerFires(h, MaxRuns, MaxInflight)
    \/ \E e \in inflight, o \in AppOutcomes : CheckResolves(e, o.status, o.duration)
    \/ \E e \in inflight : CheckRejects(e)

StatusSpec == AppInit /\ [][StatusNext]_vars

----------------------------------------------------------------------------
(* Properties of the application (StatusSpec, AppSpec) *)

\* the transport code the specification gives a status
TransportCode(status) ==
    CASE status = UNHEALTHY -> 503
      [] status = DEGRADED -> 206
      [] OTHER -> 200

ExecuteRoute == "POST /health/checks/:id/execute"

\* C26: the answer to a request whose handler got a summary from
\* getHealthSummary, a result from getCheckStatus or a result from
\* executeCheck has the code 503 when the status of the summary or result
\* is unhealthy, 206 when it is degraded and 200 when it is healthy or
\* unknown; and every such summary or result is answered.
C26_StatusToTransportCode ==
    [][/\ (response' # Empty /\ response'.route = "GET /health")
            => /\ summary' # Empty
               /\ response'.code = TransportCode(summary'.status)
       /\ (lastCall'.op = "executeAllChecks" /\ lastCall'.outcome = "resolved"
             /\ startup \in {"waiting", "logged"} /\ startup' = startup
             /\ (clock' # clock \/ inflight' # inflight))
            => response' = Answer("GET /health", "", TransportCode(summary'.status))
       /\ (response' # Empty /\ response'.route = "GET /health/checks/:id"
             /\ HistoryOf(results, response'.id) # <<>>)
            => response'.code
                 = TransportCode(LastOf(HistoryOf(results, response'.id)).status)
       /\ (lastCall'.op = "executeCheck" /\ lastCall'.outcome = "resolved"
             /\ results' # results)
            => response' = Answer(ExecuteRoute, lastCall'.id,
                                  TransportCode(LastOf(results'[lastCall'.id]).status))]_vars

\* GET /health was answered 200 for a summary of two checks whose status
\* is unknown
C26_Witness ==
    /\ response = Answer("GET /health", "", 200)
    /\ summary # Empty
    /\ summary.status = UNKNOWN
    /\ summary.totalChecks = 2

\* C27: POST /health/checks with the id of a registered check is answered
\* 409 and changes nothing in the orchestrator: the config, the metrics,
\* the history and the timer of the id stay as they are.
C27_DuplicateIsConflict ==
    [][(response' # Empty /\ response'.route = "POST /health/checks"
          /\ response'.id \in DOMAIN registry)
         => /\ response'.code = 409
            /\ UNCHANGED <<registry, keys, results, metrics, intervals, timers,
                           inflight, clock>>]_vars

\* the sample system check has run once, and a registration of its id with
\* enabled = false was answered 409: it is still enabled, with its metrics,
\* its history and its timer
C27_Witness ==
    /\ response = Answer("POST /health/checks", SystemResources.id, 409)
    /\ registry[SystemResources.id] = SystemResources
    /\ Len(HistoryOf(results, SystemResources.id)) = 1
    /\ metrics[SystemResources.id].totalExecutions = 1
    /\ TimersOf(SystemResources.id) # {}

\* C28: a request to execute, unregister, toggle or read the metrics of an
\* id that is not registered is answered 404.
C28_UnknownIdIsNotFound ==
    [][(/\ response' # Empty
        /\ response'.route \in {ExecuteRoute, "DELETE /health/checks/:id",
                                "PUT /health/checks/:id/toggle", "GET /health/metrics/:id"}
        /\ response'.id \notin DOMAIN registry
        /\ response'.code # 400)
         => response'.code = 404]_vars

\* the event the specification expects for an outcome of `status`
ExpectedLevel(status) == IF status \in {HEALTHY, DEGRADED} THEN "info" ELSE "warn"

\* C29: when an executeCheck has completed with a result, and when an
\* executeAllChecks has completed with a summary, the logger has received
\* one more event, of level info for the status healthy or degraded and
\* warn for unhealthy or unknown.
C29_EveryOutcomeIsLogged ==
    [][/\ (lastCall'.op \in {"executeCheck", "tick"} /\ lastCall'.outcome = "resolved"
             /\ results' # results)
            => /\ Len(events') = Len(events) + 1
               /\ LastOf(events').level
                    = ExpectedLevel(LastOf(results'[lastCall'.id]).status)
       /\ (lastCall'.op = "executeAllChecks" /\ lastCall'.outcome = "resolved"
             /\ (clock' # clock \/ inflight' # inflight))
            => /\ Len(events') = Len(events) + 1
               /\ LastOf(events').level = ExpectedLevel(summary'.status)]_vars

----------------------------------------------------------------------------
(* The overlap scenario and its properties (OverlapSpec) *)

\* ---- the overlap scenario: executions of one scheduled check started by
\* its caller, by its timer and by executeAllChecks, several of them in
\* flight at once and settling in any order
OverlapConfigs == [id : {"api"}, type : {SYSTEM}, enabled : {TRUE}, interval : {1000}]

\* what checker.check resolves with in the overlap scenario
OverlapOutcomes == { [status |-> HEALTHY, duration |-> 1], [status |-> UNHEALTHY, duration |-> 2] }

OverlapNext ==
    \/ \E cfg \in OverlapConfigs : RegisterCheck(cfg) /\ UNCHANGED appVars
    \/ \E cfg \in OverlapConfigs : ExecuteCheckStart(cfg.id, "caller", MaxOverlap, MaxOverlap)
          /\ UNCHANGED appVars
    \/ \E h \in timers : Tick(h, MaxOverlap, MaxOverlap) /\ UNCHANGED appVars
    \/ ExecuteAllChecks(MaxOverlap, MaxOverlap) /\ UNCHANGED appVars
    \/ \E e \in inflight, o \in OverlapOutcomes : ExecuteCheckReturn(e, o.status, o.duration)
          /\ UNCHANGED appVars
    \/ \E e \in inflight : ExecuteCheckReject(e) /\ UNCHANGED appVars

OverlapSpec == OrchestratorInit /\ [][OverlapNext]_vars

\* the executions that left the set of executions in flight in a step
Completed(before, after) == before \ after

\* C31: with executions of one id overlapping (started by the caller, by
\* the timer and by executeAllChecks, settling in any order) no update is
\* lost: every execution that resolves adds exactly one to totalExecutions
\* and appends its result to the history, which keeps what it held;
\* totalExecutions = successfulExecutions + failedExecutions in every
\* state; and the counter and the history account for every result handed
\* over since the metrics and the history were created.
C31_NoLostUpdate ==
    /\ [](\A id \in DOMAIN metrics :
            /\ metrics[id].totalExecutions
                 = metrics[id].successfulExecutions + metrics[id].failedExecutions
            /\ metrics[id].totalExecutions = Len(recorded[id])
            /\ Len(HistoryOf(stored, id)) <= HistoryLimit
                  => HistoryOf(results, id) = HistoryOf(stored, id))
    /\ [][results' # results
            => \E e \in Completed(inflight, inflight') :
                 /\ Completed(inflight, inflight') = {e}
                 /\ inflight' = inflight \ {e}
                 /\ metrics'[e.id].totalExecutions = metrics[e.id].totalExecutions + 1
                 /\ Len(results'[e.id]) = Len(HistoryOf(results, e.id)) + 1
                 /\ SubSeq(results'[e.id], 1, Len(HistoryOf(results, e.id)))
                      = HistoryOf(results, e.id)
                 /\ LastOf(results'[e.id]).timestamp = e.timestamp]_vars

\* the second execution started has resolved while the first one, started
\* by the timer, and a third one, started by executeAllChecks, are in
\* flight: one result is counted and stored
C31_Witness ==
    /\ \E e1, e3 \in inflight :
          /\ e1.timestamp = 1 /\ e1.origin = "tick"
          /\ e3.timestamp = 3 /\ e3.origin = "batch"
    /\ Len(HistoryOf(results, "api")) = 1
    /\ results["api"][1].timestamp = 2
    /\ metrics["api"].totalExecutions = 1

\* C32: the history of every id is ordered by non-decreasing timestamp
\* (the start of the evaluation), so that its last element, the answer of
\* getCheckStatus, is the stored result with the latest timestamp.
C32_HistoryOrderedByStart ==
    \A id \in DOMAIN results :
        \A i, j \in DOMAIN results[id] :
            i <= j => results[id][i].timestamp <= results[id][j].timestamp

----------------------------------------------------------------------------
(* Further properties of the lifecycle (LifecycleSpec) *)

\* C33: for every registered id the history holds min(totalExecutions, 100)
\* results, whatever operations were called, registerCheck of a registered
\* id included.
C33_HistoryLengthIsTotal ==
    \A id \in DOMAIN registry :
        Len(HistoryOf(results, id)) = Min(metrics[id].totalExecutions, HistoryLimit)

----------------------------------------------------------------------------
(* The execution scenario and its properties (ExecutionSpec) *)

\* ---- the execution scenario: executeCheck called by the caller and by
\* the timers on the two sample checks of the server, and by the caller on
\* an id that is not registered
ExecutionIds == {GoogleHttp.id, SystemResources.id, "ghost"}

\* what checker.check resolves with in the execution scenario
ExecutionOutcomes == { [status |-> HEALTHY, duration |-> 1], [status |-> UNHEALTHY, duration |-> 2] }

ExecutionNext ==
    \/ \E id \in ExecutionIds : ExecuteCheckStart(id, "caller", MaxOverlap, MaxInflight)
          /\ UNCHANGED appVars
    \/ \E id \in ExecutionIds : ExecuteCheckThrows(id) /\ UNCHANGED appVars
    \/ \E h \in timers : Tick(h, MaxOverlap, MaxInflight) /\ UNCHANGED appVars
    \/ \E e \in inflight, o \in ExecutionOutcomes : ExecuteCheckReturn(e, o.status, o.duration)
          /\ UNCHANGED appVars
    \/ \E e \in inflight : ExecuteCheckReject(e) /\ UNCHANGED appVars

ExecutionSpec == AppInit /\ [][ExecutionNext]_vars

\* C34: a step of executeCheck(id), called directly or by a timer, up to
\* its await or after it, leaves the registry and the timers as they are
\* and changes no history and no metrics but those of id; when it throws,
\* when the checker rejects and while it awaits, it changes none at all.
C34_ExecuteCheckFrame ==
    [][lastCall'.op \in {"executeCheck", "tick"}
         => /\ registry' = registry /\ keys' = keys
            /\ timers' = timers /\ intervals' = intervals
            /\ \A other \in (DOMAIN results' \cup DOMAIN metrics') \ {lastCall'.id} :
                  /\ other \in DOMAIN results' <=> other \in DOMAIN results
                  /\ other \in DOMAIN metrics' <=> other \in DOMAIN metrics
                  /\ HistoryOf(results', other) = HistoryOf(results, other)
                  /\ other \in DOMAIN metrics => metrics'[other] = metrics[other]
            /\ lastCall'.outcome # "resolved" => (results' = results /\ metrics' = metrics)]_vars

\* an executeCheck of the system check has resolved unhealthy while the
\* http check has a result and metrics of its own and an execution in flight
C34_Witness ==
    /\ lastCall = Call("executeCheck", SystemResources.id, "resolved")
    /\ LastOf(results[SystemResources.id]).status = UNHEALTHY
    /\ metrics[SystemResources.id].failedExecutions = 1
    /\ Len(HistoryOf(results, GoogleHttp.id)) = 1
    /\ metrics[GoogleHttp.id].successfulExecutions = 1
    /\ \E e \in inflight : e.id = GoogleHttp.id
    /\ Cardinality(timers) = 2

----------------------------------------------------------------------------
(* Further properties of executeAllChecks (BatchSpec) *)

\* the indexes of the tasks of the batch that are rejected
RejectedTasks(tasks) == {i \in DOMAIN tasks : tasks[i].status = "rejected"}

\* C35: the synthetic unhealthy result of a rejected task is in the summary
\* only: no history ever holds a result with an error text, and the step
\* in which a task is rejected and the step in which the summary is
\* returned leave the history and the metrics of the task's id as they
\* were, so that getCheckStatus(id) and getMetrics(id) answer as before.
C35_SyntheticResultNotStored ==
    /\ [](\A id \in DOMAIN results : \A i \in DOMAIN results[id] :
            ~Has(results[id][i], "error"))
    /\ [][(settled' # settled \/ summary' # summary)
            => \A i \in RejectedTasks(settled') :
                 (i \notin RejectedTasks(settled) \/ summary' # summary)
                    => LET id == enabledConfigs'[i].id
                       IN /\ id \in DOMAIN results' <=> id \in DOMAIN results
                          /\ HistoryOf(results', id) = HistoryOf(results, id)
                          /\ id \in DOMAIN metrics' <=> id \in DOMAIN metrics
                          /\ id \in DOMAIN metrics => metrics'[id] = metrics[id]]_vars

\* a summary with the synthetic result of the system check, whose checker
\* rejected: the history of the system check is empty and its metrics
\* count nothing, while the http check's result is stored
C35_Witness ==
    /\ summary # Empty
    /\ \E i \in DOMAIN settled :
          /\ settled[i].status = "rejected"
          /\ settled[i].reason = CheckerRejection
          /\ enabledConfigs[i].id = "sys"
          /\ summary.checks[i].status = UNHEALTHY
          /\ Has(summary.checks[i], "error")
    /\ "sys" \notin DOMAIN results
    /\ metrics["sys"].totalExecutions = 0
    /\ Len(HistoryOf(results, "api")) = 1

----------------------------------------------------------------------------
(* Further properties of the database checker (CheckerSpec) *)

\* the database answered the query of the attempt that ended check()
QueryAnswered ==
    /\ pc = "done" /\ config.type = DATABASE /\ calls > 0
    /\ config.databaseType \in {"postgresql", "mysql"}
    /\ script[calls].kind = "ok"

\* C38: a check of a data store that runs a query (PostgreSQL, MySQL) with
\* expectedResult configured is unhealthy when the first row of the answer
\* differs from expectedResult.
C38_ExpectedResultValidated ==
    (/\ QueryAnswered
     /\ Has(config, "expectedResult")
     /\ JsonStringify(script[calls].row) # JsonStringify(config.expectedResult))
        => checkResult.status = UNHEALTHY

----------------------------------------------------------------------------
(* Further properties of the system checker (CheckerSpec) *)

\* the metric of a sub-check: what the operating system reports for its resource
MetricOf(check, env) ==
    CASE check.type = "memory" -> env.memoryUsagePercent
      [] check.type = "cpu" -> env.currentLoad
      [] OTHER -> env.diskUsagePercent

\* unhealthy above the threshold, degraded above 0.8 of it, else healthy
ExpectedSubStatus(metric, threshold) ==
    IF metric > threshold THEN UNHEALTHY
    ELSE IF 10 * metric > 8 * threshold THEN DEGRADED
    ELSE HEALTHY

\* unhealthy over degraded over healthy
WorstStatus(statuses) ==
    IF UNHEALTHY \in statuses THEN UNHEALTHY
    ELSE IF DEGRADED \in statuses THEN DEGRADED
    ELSE HEALTHY

\* check() of the system checker returned the result of its try block and
\* every checked path could be examined
SystemEvaluated ==
    /\ pc = "done" /\ config.type = SYSTEM
    /\ Has(checkResult, "metadata")
    /\ script[1].statOk

\* the sub-checks of the kinds named by a set follow the threshold rule,
\* the overall status is the worst of all and the metadata has one entry
\* per configured sub-check
ThresholdRuleFor(kinds) ==
    SystemEvaluated =>
        LET checks == config.checks
            out    == checkResult.metadata.checks
        IN /\ Len(out) = Len(checks)
           /\ \A i \in DOMAIN checks :
                 /\ out[i].type = checks[i].type
                 /\ checks[i].type \in kinds
                      => out[i].status = ExpectedSubStatus(MetricOf(checks[i], script[1]),
                                                           checks[i].threshold)
           /\ checkResult.status = WorstStatus({out[i].status : i \in DOMAIN out})

\* C37: every memory, cpu and disk sub-check of a system check is unhealthy
\* when its metric exceeds the threshold, degraded when it exceeds 0.8 of
\* the threshold, else healthy; the overall status is the worst sub-check
\* status and the metadata lists one entry per configured sub-check.
C37_SubCheckThresholdRule == ThresholdRuleFor({"memory", "cpu", "disk"})

----------------------------------------------------------------------------
(* The release of database clients (CheckerSpec) *)

CreateOps == {"new Client", "createConnection", "new MongoClient", "createClient"}
CloseOps == {"end", "close", "disconnect"}

\* C39: every database attempt that has returned or thrown released what
\* it acquired: a client or connection it created has had its end, close
\* or disconnect invoked later in the same attempt, on success, connect
\* failure and query failure alike.
C39_ClientAlwaysClosed ==
    \A i \in DOMAIN driverCalls :
        (driverCalls[i].op \in CreateOps /\ driverCalls[i].ok)
            => \E j \in DOMAIN driverCalls :
                  /\ j > i
                  /\ driverCalls[j].attempt = driverCalls[i].attempt
                  /\ driverCalls[j].op \in CloseOps

\* a PostgreSQL check of three attempts: the connect of the first failed,
\* the query of the second failed, the third succeeded, and each of the
\* three clients was ended
C39_Witness ==
    /\ pc = "done" /\ config.type = DATABASE /\ config.databaseType = "postgresql"
    /\ calls = 3
    /\ script[1].kind = "connectFail" /\ script[2].kind = "queryFail" /\ script[3].kind = "ok"
    /\ Cardinality({i \in DOMAIN driverCalls : driverCalls[i].op = "new Client"}) = 3
    /\ Cardinality({i \in DOMAIN driverCalls : driverCalls[i].op = "end"}) = 3
    /\ checkResult.status = HEALTHY

----------------------------------------------------------------------------
(* The progress scenario and its properties (ProgressSpec, ProgressFairSpec) *)
(* One direct executeCheck of the sample http check is followed through the *)
(* retry loop of its checker, attempt by attempt and delay by delay, while  *)
(* the timers tick and executeAllChecks runs; the checker calls of the      *)
(* other executions settle in one step.                                     *)

\* what the endpoint does on one request of the followed execution
ProgressAnswers ==
    {a \in HttpAnswers :
        \/ a.kind = "throw" /\ a.error = CHOOSE e \in HttpErrors : TRUE
        \/ a.kind = "response" /\ a.statusCode = 200 /\ a.bodyMatches /\ a.responseTime = 100}

ProgressOutcomes == { [status |-> HEALTHY, duration |-> 1] }

\* the direct executeCheck that is followed is awaiting its checker
Awaited == \E e \in inflight : e.origin = "caller"

ProgressInit ==
    /\ config = GoogleHttp /\ options = Empty
    /\ script \in [1 .. ScriptLength(options, config) -> ProgressAnswers]
    /\ osFailures = 0 /\ pc = "start" /\ maxRetries = 0 /\ attempt = 0 /\ retryCount = 0
    /\ lastError = "" /\ calls = 0 /\ delays = 0 /\ driverCalls = <<>> /\ checkResult = Empty
    /\ AggIdle /\ AppIdle /\ SampleChecksRegistered

\* executeCheck('google-http') is called once
ProgressExecute ==
    /\ pc = "start" /\ ~Awaited
    /\ ExecuteCheckStart(GoogleHttp.id, "caller", MaxProgress, MaxOverlap)
    /\ UNCHANGED appVars

\* the steps of checker.check(config) of the followed execution
ProgressChecker ==
    /\ Awaited
    /\ (CheckStart \/ HttpAttempt \/ RetryDelay)
    /\ UNCHANGED appVars

\* the await of the followed execution resolves with what check() returned
ProgressReturn ==
    /\ pc = "done"
    /\ \E e \in inflight :
          /\ e.origin = "caller"
          /\ ExecuteCheckReturn(e, checkResult.status, 1)
    /\ UNCHANGED appVars

ProgressTick(h) == Tick(h, MaxProgress, MaxOverlap) /\ UNCHANGED appVars

ProgressExecuteAll == ExecuteAllChecks(MaxProgress, MaxOverlap) /\ UNCHANGED appVars

\* the checker call of an execution started by a timer or a batch settles
ProgressSettle ==
    /\ \E e \in inflight :
          /\ e.origin # "caller"
          /\ \/ \E o \in ProgressOutcomes : ExecuteCheckReturn(e, o.status, o.duration)
             \/ ExecuteCheckReject(e)
    /\ UNCHANGED appVars

ProgressNext ==
    \/ ProgressExecute
    \/ ProgressChecker
    \/ ProgressReturn
    \/ \E h \in timers : ProgressTick(h)
    \/ ProgressExecuteAll
    \/ ProgressSettle

ProgressSpec == ProgressInit /\ [][ProgressNext]_vars

\* every attempt and every retry delay of check() terminates, the promise of
\* a settled check() is delivered to the executeCheck that awaits it
ProgressFairSpec ==
    /\ ProgressSpec
    /\ WF_vars(ProgressChecker)
    /\ WF_vars(ProgressReturn)
    /\ WF_vars(ProgressSettle)

\* executions can still be started within the bounds of the scenario
CanStart == clock < MaxProgress /\ Cardinality(inflight) < MaxOverlap

\* C36: every executeCheck eventually returns (its execution leaves the
\* ones in flight) after at most retries + 1 attempts of its checker, every
\* executeAllChecks eventually returns its summary, which it has as soon as
\* all its tasks have settled, and while a check sleeps its retry delay
\* every timer can tick and the checks can be executed (executeAllChecks is
\* followed one call at a time).
C36_ExecutionsTerminate ==
    /\ \A t \in 1 .. MaxProgress + 1 :
          (\E e \in inflight : e.timestamp = t) ~> ~(\E e \in inflight : e.timestamp = t)
    /\ [](calls <= config.retries + 1 /\ delays <= config.retries)
    /\ (settled # <<>> /\ ~AllSettled(settled)) ~> (summary # Empty)
    /\ []((settled # <<>> /\ AllSettled(settled)) => summary # Empty)
    /\ []((pc = "delay" /\ CanStart)
            => /\ \A h \in timers : ENABLED ProgressTick(h)
               /\ (AllSettled(settled) /\ Cardinality(inflight) + 2 <= MaxOverlap)
                     => ENABLED ProgressExecuteAll)

\* the followed execution returned unhealthy after three attempts and two
\* retry delays, and the timer of the system check ticked while it was
\* pending: that execution started later and stored its result earlier
C36_Witness ==
    /\ pc = "done" /\ calls = 3 /\ delays = 2
    /\ ~Awaited /\ inflight = {}
    /\ Len(HistoryOf(results, GoogleHttp.id)) = 1
    /\ results[GoogleHttp.id][1].status = UNHEALTHY
    /\ results[GoogleHttp.id][1].timestamp = 1
    /\ Len(HistoryOf(results, SystemResources.id)) = 1
    /\ results[SystemResources.id][1].timestamp = 2
    /\ stored[SystemResources.id] = <<results[SystemResources.id][1]>>
    /\ metrics[GoogleHttp.id].failedExecutions = 1
    /\ lastCall = Call("executeCheck", GoogleHttp.id, "resolved")

====
